---- MODULE Spec2Model ----
(***************************************************************************)
(* Model of the ht HTTP test engine: the boolean check combinators         *)
(* (ht/boolean.go), the Status rollup and exit code (ht/report.go,         *)
(* recorder/recorder.go, cmd/ht/exec.go), the fork/join execution of       *)
(* suites with the shared random source (cmd/ht/exec.go, ht/random.go)     *)
(* and the disabling of tests by -only/-skip (cmd/ht main).                *)
(***************************************************************************)
EXTENDS Integers, Sequences, FiniteSets, TLC

\* ------------------------------------------------------------------------
\* Bounds of the model

MaxOf == 3          \* longest list Of of sub-checks of a combinator
NumErrs == 2        \* number of distinct errors a sub-check may return
NumSuites == 2      \* suites given to exec
MaxTests == 1       \* most tests of one executed suite
MaxDraws == 3       \* most calls of Random.Intn the tests of a run make
RepSuites == 1      \* suites of a finished run
RepTests == 2       \* most tests of one suite of a finished run
LoadSuites == 1     \* suite files on the command line of a load
MaxIDs == 1         \* most test ids in the value of -only and of -skip
MaxChecks == 2      \* most checks of a test
MaxPoll == 2        \* largest Poll.Max of a test
GroupTests == 1     \* most tests of one group of an executed suite
MaxStr == 3         \* longest string a Condition is applied to
MaxCount == 3       \* most repetitions asked of Repeat
MaxVals == 2        \* longest list of values of an unrolled variable
MaxMaps == 2        \* most maps merged by one call of mergeVariables
MaxRange == 4       \* greatest number in the range of a random value
CorpusWords == 3    \* number of words of a corpus of random text
JUnitTests == 2     \* most tests of a suite reported as JUnit XML
JUnitResults == 2   \* most check results of a suite reported as JUnit XML
MaxOffset == 2      \* greatest N of a time variable {{NOW + N<unit>}}
MaxItems == 2       \* most pieces, literal text or time variables, of a text
MaxListLen == 3     \* longest value list given to lcmOf
MaxEvents == 3      \* most recorded events whose headers are compared

\* ------------------------------------------------------------------------
\* State

\* A combinator check: its sub-checks, its kind, and what its Prepare and
\* its Execute returned.
VARIABLES Of, combinator, prepRes, execRes

\* The run of "ht exec": the -serial flag, the suites with their tests, the
\* position of runExecute, the loop variable i of executeSuites, the counter
\* of the WaitGroup, per suite the position of its task, the number of the
\* test it is at, the generator state its pending draw has read and the
\* number of calls of its Execute, the shared generator ht.Random, the
\* statistics, the exit code, what saving the results of the suites came
\* to, the rollup of each suite, and what the server under test makes of
\* the requests of this run.
VARIABLES serialFlag, suites, mainPc, loopI, wg, taskPc, taskK, taskSeen,
          executions, Random, totals, exitCode, saved, suiteStatus, server

boolVars == <<Of, combinator, prepRes, execRes>>

execVars == <<serialFlag, suites, mainPc, loopI, wg, taskPc, taskK, taskSeen,
              executions, Random, totals, exitCode, saved, suiteStatus, server>>

\* The command line: the ids given to -only and to -skip, the position of
\* the load and the run of the loaded tests, and the suite and test the run
\* is at.
VARIABLES onlyFlag, skipFlag, loadPc, runS, runK

loadVars == <<onlyFlag, skipFlag, loadPc, runS, runK>>

\* The run of one test: the test with its checks and its results, the
\* position of Test.Run, and the response of the current attempt.
VARIABLES test, testPc, response

testVars == <<test, testPc, response>>

\* A call of one of the functions of the package: the function with its
\* arguments as the call leaves them, and what it returned.
VARIABLES call, ret

callVars == <<call, ret>>

unitVars == <<testVars, callVars>>

vars == <<boolVars, execVars, loadVars, unitVars>>

\* ------------------------------------------------------------------------
\* Errors (Go's error interface values)

\* The nil error.
Nil == [kind |-> "nil", errs |-> <<>>, n |-> 0]

\* The error number id a plain (non combinator) sub-check returns.
LeafErr(id) == [kind |-> "error", errs |-> <<>>, n |-> id]

\* An ErrorList holding es; it is a non-nil error even if es is empty.
ErrorList(es) == [kind |-> "ErrorList", errs |-> es, n |-> 0]

\* fmt.Errorf("check %d passed", n)
ErrorfCheckPassed(n) == [kind |-> "check %d passed", errs |-> <<>>, n |-> n]

IsNil(e) == e.kind = "nil"

\* The outcomes of Prepare and of Execute of one sub-check.
Outcomes == {Nil} \cup {LeafErr(id) : id \in 1..NumErrs}

\* A sub-check: what its Prepare returns and what its Execute returns.
SubChecks == [prep : Outcomes, exec : Outcomes]

\* All sequences over S of length 0..n.
SeqsUpTo(S, n) == UNION {[1..k -> S] : k \in 0..n}

\* c.Prepare() and c.Execute(t) of a sub-check c.
CheckPrepare(c) == c.prep
CheckExecute(c) == c.exec

\* The Go index (from 0) of the element at position j (from 1) of a sequence.
GoIndex(j) == j - 1

\* ------------------------------------------------------------------------
\* AnyOne

\* Mutant: Prepare stops at the first malformed sub-check.
RECURSIVE AnyOnePrepareShort(_, _, _, _)
AnyOnePrepareShort(of, j, errs, calls) ==
    IF j > Len(of) THEN [err |-> Nil, calls |-> calls]
    ELSE LET err == CheckPrepare(of[j]) IN
         IF ~IsNil(err)
         THEN [err |-> ErrorList(<<err>>), calls |-> Append(calls, j)]
         ELSE AnyOnePrepareShort(of, j + 1, errs, Append(calls, j))

\* The loop of AnyOne.Prepare from position j on, with the errors collected
\* so far and the log of the sub-checks whose Prepare was called.
RECURSIVE AnyOnePrepareFrom(_, _, _, _)
AnyOnePrepareFrom(of, j, errs, calls) ==
    IF j > Len(of)
    THEN [err |-> IF Len(errs) = 0 THEN Nil ELSE ErrorList(errs),
          calls |-> calls]
    ELSE LET err == CheckPrepare(of[j]) IN
         AnyOnePrepareFrom(of, j + 1,
                           IF ~IsNil(err) THEN Append(errs, err) ELSE errs,
                           Append(calls, j))

AnyOnePrepare(of) == AnyOnePrepareFrom(of, 1, <<>>, <<>>)

\* Mutant: Execute does not stop at the first passing sub-check.
RECURSIVE AnyOneExecuteNoStop(_, _, _, _)
AnyOneExecuteNoStop(of, j, errs, calls) ==
    IF j > Len(of)
    THEN [err |-> IF Len(errs) < Len(of) THEN Nil ELSE ErrorList(errs),
          calls |-> calls]
    ELSE LET err == CheckExecute(of[j]) IN
         AnyOneExecuteNoStop(of, j + 1,
                             IF IsNil(err) THEN errs ELSE Append(errs, err),
                             Append(calls, j))

\* Mutant: Execute keeps only the last error.
RECURSIVE AnyOneExecuteLastErr(_, _, _, _)
AnyOneExecuteLastErr(of, j, errs, calls) ==
    IF j > Len(of) THEN [err |-> ErrorList(errs), calls |-> calls]
    ELSE LET err == CheckExecute(of[j]) IN
         IF IsNil(err) THEN [err |-> Nil, calls |-> Append(calls, j)]
         ELSE AnyOneExecuteLastErr(of, j + 1, <<err>>, Append(calls, j))

\* Mutant: Execute returns nil if no sub-check failed.
RECURSIVE AnyOneExecuteNilEmpty(_, _, _, _)
AnyOneExecuteNilEmpty(of, j, errs, calls) ==
    IF j > Len(of)
    THEN [err |-> IF Len(errs) = 0 THEN Nil ELSE ErrorList(errs),
          calls |-> calls]
    ELSE LET err == CheckExecute(of[j]) IN
         IF IsNil(err) THEN [err |-> Nil, calls |-> Append(calls, j)]
         ELSE AnyOneExecuteNilEmpty(of, j + 1, Append(errs, err),
                                    Append(calls, j))

\* The loop of AnyOne.Execute from position j on.
RECURSIVE AnyOneExecuteFrom(_, _, _, _)
AnyOneExecuteFrom(of, j, errs, calls) ==
    IF j > Len(of) THEN [err |-> ErrorList(errs), calls |-> calls]
    ELSE LET err == CheckExecute(of[j]) IN
         IF IsNil(err) THEN [err |-> Nil, calls |-> Append(calls, j)]
         ELSE AnyOneExecuteFrom(of, j + 1, Append(errs, err), Append(calls, j))

AnyOneExecute(of) == AnyOneExecuteFrom(of, 1, <<>>, <<>>)

\* ------------------------------------------------------------------------
\* None

RECURSIVE NonePrepareFrom(_, _, _, _)
NonePrepareFrom(of, j, errs, calls) ==
    IF j > Len(of)
    THEN [err |-> IF Len(errs) = 0 THEN Nil ELSE ErrorList(errs),
          calls |-> calls]
    ELSE LET err == CheckPrepare(of[j]) IN
         NonePrepareFrom(of, j + 1,
                         IF ~IsNil(err) THEN Append(errs, err) ELSE errs,
                         Append(calls, j))

NonePrepare(of) == NonePrepareFrom(of, 1, <<>>, <<>>)

\* Mutant: None goes on after a passing sub-check and reports the last one.
RECURSIVE NoneExecuteNoStop(_, _, _, _)
NoneExecuteNoStop(of, j, passed, calls) ==
    IF j > Len(of)
    THEN [err |-> IF passed = 0 THEN Nil ELSE ErrorfCheckPassed(passed),
          calls |-> calls]
    ELSE LET err == CheckExecute(of[j]) IN
         NoneExecuteNoStop(of, j + 1,
                           IF IsNil(err) THEN GoIndex(j) + 1 ELSE passed,
                           Append(calls, j))

\* Mutant: None reports the Go index i instead of i+1.
RECURSIVE NoneExecuteIndex(_, _, _, _)
NoneExecuteIndex(of, j, passed, calls) ==
    IF j > Len(of) THEN [err |-> Nil, calls |-> calls]
    ELSE LET err == CheckExecute(of[j]) IN
         IF IsNil(err)
         THEN [err |-> ErrorfCheckPassed(GoIndex(j)), calls |-> Append(calls, j)]
         ELSE NoneExecuteIndex(of, j + 1, passed, Append(calls, j))

\* The loop of None.Execute from position j on; the code's loop variable i
\* is GoIndex(j) and the error names check i+1.
RECURSIVE NoneExecuteFrom(_, _, _, _)
NoneExecuteFrom(of, j, passed, calls) ==
    IF j > Len(of) THEN [err |-> Nil, calls |-> calls]
    ELSE LET err == CheckExecute(of[j]) IN
         IF IsNil(err)
         THEN [err |-> ErrorfCheckPassed(GoIndex(j) + 1),
               calls |-> Append(calls, j)]
         ELSE NoneExecuteFrom(of, j + 1, passed, Append(calls, j))

NoneExecute(of) == NoneExecuteFrom(of, 1, 0, <<>>)

\* ------------------------------------------------------------------------
\* Status (ht/report.go, recorder/recorder.go)

NotRun == 0
Skipped == 1
Pass == 2
Fail == 3
Error == 4
Bogus == 5

Statuses == {NotRun, Skipped, Pass, Fail, Error, Bogus}

\* Mutant: the rollup starts at Pass.
RECURSIVE CombineTestsFromPass(_, _, _)
CombineTestsFromPass(sr, k, status) ==
    IF k > Len(sr.TestResults) THEN (IF status < Pass THEN Pass ELSE status)
    ELSE CombineTestsFromPass(sr, k + 1,
                              IF sr.TestResults[k].Status > status
                              THEN sr.TestResults[k].Status ELSE status)

\* The loop of SuiteResult.CombineTests from test k on.
RECURSIVE CombineTestsFrom(_, _, _)
CombineTestsFrom(sr, k, status) ==
    IF k > Len(sr.TestResults) THEN status
    ELSE CombineTestsFrom(sr, k + 1,
                          IF sr.TestResults[k].Status > status
                          THEN sr.TestResults[k].Status ELSE status)

CombineTests(sr) == CombineTestsFrom(sr, 1, NotRun)

\* ------------------------------------------------------------------------
\* Tests and suites

\* A test: its group in the suite, Poll.Max, the number of calls of
\* Random.Intn that binding its RANDOM variable takes (none without such a
\* variable, one for RANDOM NUMBER, two for RANDOM TEXT) and the number of
\* them that are done, its Status and the number of requests sent for it.
NewTest(group, pollMax, randomDraws) ==
    [Group |-> group, PollMax |-> pollMax, RandomDraws |-> randomDraws,
     Drawn |-> 0, Status |-> NotRun, Requests |-> 0]

\* What the run of an enabled test can end in. The server under test
\* decides it; it answers all requests of one run in the same way.
RunOutcomes == {Pass, Fail, Error, Bogus}

\* Test.Run: a test with negative Poll.Max becomes Skipped and no request is
\* made; a test with a malformed check becomes Bogus before any request;
\* otherwise the request is made and the test ends in the outcome.
TestRun(t, outcome) ==
    IF t.PollMax < 0 THEN [t EXCEPT !.Status = Skipped]
    ELSE IF outcome = Bogus THEN [t EXCEPT !.Status = Bogus]
    ELSE [t EXCEPT !.Status = outcome, !.Requests = t.Requests + 1]

\* Suite.AllTests: the tests of a suite, Setup first, Teardown last.
AllTests(suite) == suite

\* A Setup test of the suite has failed.
SetupFailed(suite) ==
    \E j \in 1..Len(suite) :
        suite[j].Group = "Setup" /\ suite[j].Status \in {Fail, Error, Bogus}

\* Mutant: the Main tests are executed whatever the Setup tests ended in.
ExecutesAlways(suite, k) == TRUE

\* Suite.Execute executes test k of the suite: a Main test only if no
\* Setup test has failed.
Executes(suite, k) == suite[k].Group = "Tests" => ~SetupFailed(suite)

\* Suite.Execute at test k of the suite.
SuiteExecuteTest(suite, k, outcome) ==
    IF Executes(suite, k)
    THEN [suite EXCEPT ![k] = TestRun(@, outcome)]
    ELSE suite

\* ------------------------------------------------------------------------
\* -only and -skip (cmd/ht main)

\* The id fmt.Sprintf("%d.%s%d", sNo, typ, tNo) of a test.
TestID(sNo, typ, tNo) == <<sNo, typ, tNo>>

\* The groups of the tests of a loaded suite file, in the order of
\* AllTests, and the size of the largest group.
FileGroups == <<"Setup", "Tests", "Tests", "Teardown">>
MaxGroupLen == Len(SelectSeq(FileGroups, LAMBDA g : g = "Tests"))

\* One id as typed after -only or -skip: the suite number (0 if it and the
\* dot are left out), the type letter ("" if left out) and the test number.
FlagTokens == [s : 0..LoadSuites, c : {"", "u", "d"}, t : 1..MaxGroupLen]

\* The body of the loop of splitTestIDs for one id x.
SplitTestID(x) ==
    LET sNo == IF x.s = 0 THEN 1 ELSE x.s
        typ == IF x.c \in {"U", "u"} THEN "U"
               ELSE IF x.c \in {"D", "d"} THEN "D"
               ELSE ""
    IN TestID(sNo, typ, x.t)

\* splitTestIDs(f) for the flag value f, a set of typed ids.
splitTestIDs(f) == {SplitTestID(x) : x \in f}

\* Mutant: a test missing from a non-empty -only set stays enabled.
shouldRunSkipOnly(t, id, only, skip) ==
    IF id \in skip THEN [t EXCEPT !.PollMax = -1] ELSE t

\* shouldRun disables t if needed.
shouldRun(t, id, only, skip) ==
    IF id \in skip THEN [t EXCEPT !.PollMax = -1]
    ELSE IF id \notin only /\ Cardinality(only) > 0
    THEN [t EXCEPT !.PollMax = -1]
    ELSE t

\* The number (from 0) of test k of a suite among the tests of its group.
GroupIndex(suite, k) ==
    Cardinality({j \in 1..k : suite[j].Group = suite[k].Group}) - 1

\* The id loadSuites gives to test k of the suite at position s.
LoadedID(ss, s, k) ==
    LET sNo == GoIndex(s)
        tNo == GroupIndex(ss[s], k)
        typ == IF ss[s][k].Group = "Setup" THEN "u"
               ELSE IF ss[s][k].Group = "Teardown" THEN "d"
               ELSE ""
    IN TestID(sNo + 1, typ, tNo + 1)

\* The loops of loadSuites that disable tests.
DisableTests(ss, only, skip) ==
    [s \in DOMAIN ss |->
        [k \in DOMAIN ss[s] |->
            shouldRun(ss[s][k], LoadedID(ss, s, k), only, skip)]]

\* ------------------------------------------------------------------------
\* runExecute: statistics and exit code (cmd/ht/exec.go)

NoTotals == [total |-> 0, pass |-> 0, error |-> 0, skiped |-> 0,
             failed |-> 0, bogus |-> 0]

\* The switch on r.Status of the statistics loop, for one test.
CountTest(tot, r) ==
    LET t1 == IF r.Status = Pass THEN [tot EXCEPT !.pass = @ + 1]
              ELSE IF r.Status = Error THEN [tot EXCEPT !.error = @ + 1]
              ELSE IF r.Status = Skipped THEN [tot EXCEPT !.skiped = @ + 1]
              ELSE IF r.Status = Fail THEN [tot EXCEPT !.failed = @ + 1]
              ELSE IF r.Status = Bogus THEN [tot EXCEPT !.bogus = @ + 1]
              ELSE tot
    IN [t1 EXCEPT !.total = @ + 1]

\* The statistics loop over the tests of one suite, from test k on.
RECURSIVE CountTests(_, _, _)
CountTests(tot, tests, k) ==
    IF k > Len(tests) THEN tot
    ELSE CountTests(CountTest(tot, tests[k]), tests, k + 1)

\* What saving the results of one suite comes to: "saved" when the folder
\* is made and the HTML report and the JUnit report are written, or the
\* call that fails: os.MkdirAll, HTMLReport, JUnit4XML or ioutil.WriteFile.
\* The file system decides.
Saves == {"saved", "MkdirAll", "HTMLReport", "JUnit4XML", "WriteFile"}

\* The loop of runExecute over the suites, from suite s on, where saving
\* the results of suite k comes to saves[k]: the tests of the suite are
\* counted, then its results are saved, and a call that fails ends the
\* loop and runExecute in log.Panic. The statistics, the saves that were
\* tried, and whether the loop panicked.
RECURSIVE CountSuites(_, _, _, _)
CountSuites(tot, ss, s, saves) ==
    IF s > Len(ss)
    THEN [totals |-> tot, saved |-> SubSeq(saves, 1, Len(ss)),
          panic |-> FALSE]
    ELSE IF saves[s] # "saved"
    THEN [totals |-> CountTests(tot, AllTests(ss[s]), 1),
          saved |-> SubSeq(saves, 1, s), panic |-> TRUE]
    ELSE CountSuites(CountTests(tot, AllTests(ss[s]), 1), ss, s + 1, saves)

\* Mutant: failures are looked at before errors and bogus tests.
ExitCodeFailFirst(tot) ==
    IF tot.failed > 0 THEN 1
    ELSE IF tot.error > 0 THEN 2
    ELSE IF tot.bogus > 0 THEN 3
    ELSE 0

\* The argument of os.Exit at the end of runExecute.
ExitCode(tot) ==
    IF tot.bogus > 0 THEN 3
    ELSE IF tot.error > 0 THEN 2
    ELSE IF tot.failed > 0 THEN 1
    ELSE 0

\* ------------------------------------------------------------------------
\* ht.Random and the WaitGroup

\* A generator made by rand.New(rand.NewSource(seed)): its seed, the
\* number of values its state has been advanced by, and whether the two
\* positions in its state (tap and feed) are in step, as every call that
\* runs alone leaves them.
NewRand(seed) == [seed |-> seed, pos |-> 0, inStep |-> TRUE]

\* What the generator can be after the call of Random.Intn of a task that
\* read it at position seen, when another task was inside Random.Intn at
\* the same time. The calls race on the state: both draws are counted, or
\* the update of one is lost, and the two positions in the state can be
\* left advanced by different amounts.
RaceOutcomes(rand, seen) ==
    {[rand EXCEPT !.pos = p, !.inStep = i] :
        p \in {seen + 1, rand.pos + 1}, i \in {rand.inStep, FALSE}}

\* Mutant: wg.Add(1) is not done before the task is started.
WgAddLate(n) == n

\* wg.Add(1)
WgAdd(n) == n + 1

\* wg.Done()
WgDone(n) == n - 1

\* The exit code before os.Exit and the rollup before CombineTests.
Unset == -1

\* The values of the variables of the run of "ht exec" when there is none.
ExecIdle ==
    /\ serialFlag = FALSE
    /\ suites = <<>>
    /\ mainPc = "idle"
    /\ loopI = 0
    /\ wg = 0
    /\ taskPc = <<>>
    /\ taskK = <<>>
    /\ taskSeen = <<>>
    /\ executions = <<>>
    /\ Random = NewRand("init")
    /\ totals = NoTotals
    /\ exitCode = Unset
    /\ saved = <<>>
    /\ suiteStatus = <<>>
    /\ server = Unset

\* The values of the variables of the command line when nothing is loaded.
LoadIdle ==
    /\ onlyFlag = {}
    /\ skipFlag = {}
    /\ loadPc = "idle"
    /\ runS = 0
    /\ runK = 0

\* The values of the variables of a test run and of a call when there is
\* none.
UnitIdle ==
    /\ test = <<>>
    /\ testPc = "idle"
    /\ response = <<>>
    /\ call = <<>>
    /\ ret = <<>>

\* ------------------------------------------------------------------------
\* The life of one combinator check: Prepare once, then Execute

NoRes == [op |-> "none", err |-> Nil, calls |-> <<>>]

Result(op, r) == [op |-> op, err |-> r.err, calls |-> r.calls]

BoolInit ==
    /\ Of \in SeqsUpTo(SubChecks, MaxOf)
    /\ combinator \in {"AnyOne", "None"}
    /\ prepRes = NoRes
    /\ execRes = NoRes
    /\ ExecIdle
    /\ LoadIdle
    /\ UnitIdle

AnyOnePrepareStep ==
    /\ combinator = "AnyOne"
    /\ prepRes = NoRes
    /\ prepRes' = Result("AnyOne.Prepare", AnyOnePrepare(Of))
    /\ UNCHANGED <<Of, combinator, execRes>>
    /\ UNCHANGED <<execVars, loadVars>>
    /\ UNCHANGED unitVars

NonePrepareStep ==
    /\ combinator = "None"
    /\ prepRes = NoRes
    /\ prepRes' = Result("None.Prepare", NonePrepare(Of))
    /\ UNCHANGED <<Of, combinator, execRes>>
    /\ UNCHANGED <<execVars, loadVars>>
    /\ UNCHANGED unitVars

\* A check is executed only if its Prepare succeeded.
AnyOneExecuteStep ==
    /\ combinator = "AnyOne"
    /\ prepRes # NoRes /\ IsNil(prepRes.err)
    /\ execRes = NoRes
    /\ execRes' = Result("AnyOne.Execute", AnyOneExecute(Of))
    /\ UNCHANGED <<Of, combinator, prepRes>>
    /\ UNCHANGED <<execVars, loadVars>>
    /\ UNCHANGED unitVars

NoneExecuteStep ==
    /\ combinator = "None"
    /\ prepRes # NoRes /\ IsNil(prepRes.err)
    /\ execRes = NoRes
    /\ execRes' = Result("None.Execute", NoneExecute(Of))
    /\ UNCHANGED <<Of, combinator, prepRes>>
    /\ UNCHANGED <<execVars, loadVars>>
    /\ UNCHANGED unitVars

BoolNext ==
    \/ AnyOnePrepareStep
    \/ NonePrepareStep
    \/ AnyOneExecuteStep
    \/ NoneExecuteStep

SpecBool == BoolInit /\ [][BoolNext]_vars

\* ------------------------------------------------------------------------
\* The run of "ht exec" (cmd/ht/exec.go)

\* The values of the variables of a part of the program that is not running.
BoolIdle ==
    /\ Of = <<>>
    /\ combinator = "none"
    /\ prepRes = NoRes
    /\ execRes = NoRes

Suspended(s) ==
    /\ taskPc[s] = "running"
    /\ taskK[s] <= Len(suites[s])

\* The test the task of suite s is at.
Current(s) == suites[s][taskK[s]]

\* The current test of suite s has a call of Random.Intn to make for its
\* RANDOM variable before it runs.
Draws(s) ==
    Current(s).PollMax >= 0 /\ Current(s).Drawn < Current(s).RandomDraws

\* The tasks that are inside Random.Intn: alone so far, or together with
\* another task at some time of the call.
Inside == {s \in DOMAIN taskPc : taskPc[s] \in {"drawing", "racing"}}

\* The tests of the executed suites: enabled, without a RANDOM variable,
\* with RANDOM NUMBER (one call of Random.Intn) or with RANDOM TEXT (two).
ExecTests == {NewTest("Tests", 0, r) : r \in {0, 1, 2}}

\* The number of calls of Random.Intn the tests of the suites ss make,
\* from test k of suite s on.
RECURSIVE DrawsFrom(_, _, _)
DrawsFrom(ss, s, k) ==
    IF s > Len(ss) THEN 0
    ELSE IF k > Len(ss[s]) THEN DrawsFrom(ss, s + 1, 1)
    ELSE ss[s][k].RandomDraws + DrawsFrom(ss, s, k + 1)

\* What the server under test answers in an executed run: the tests pass
\* or they fail. The other statuses of a finished run are those of
\* ReportInit.
ExecOutcomes == {Pass, Fail}

\* The suites given to exec: their tests make at most MaxDraws calls of
\* Random.Intn.
ExecSuites ==
    {ss \in [1..NumSuites -> SeqsUpTo(ExecTests, MaxTests)] :
        DrawsFrom(ss, 1, 1) <= MaxDraws}

ExecInit ==
    /\ serialFlag \in BOOLEAN
    /\ suites \in ExecSuites
    /\ mainPc = "prepare"
    /\ loopI = 0
    /\ wg = 0
    /\ taskPc = [s \in 1..NumSuites |-> "unstarted"]
    /\ taskK = [s \in 1..NumSuites |-> 0]
    /\ taskSeen = [s \in 1..NumSuites |-> 0]
    /\ executions = [s \in 1..NumSuites |-> 0]
    /\ Random = NewRand("init")
    /\ totals = NoTotals
    /\ exitCode = Unset
    /\ saved = <<>>
    /\ suiteStatus = [s \in 1..NumSuites |-> Unset]
    /\ server \in ExecOutcomes
    /\ BoolIdle
    /\ LoadIdle
    /\ UnitIdle

\* prepareExecution: prepareHT replaces ht.Random by a generator seeded
\* from the -seed flag, before any suite is started.
PrepareExecution ==
    /\ mainPc = "prepare"
    /\ Random' = NewRand("flag")
    /\ mainPc' = "loop"
    /\ loopI' = 1
    /\ UNCHANGED <<serialFlag, suites, wg, taskPc, taskK, taskSeen,
                   executions, totals, exitCode, saved, suiteStatus, server>>
    /\ UNCHANGED <<boolVars, loadVars>>
    /\ UNCHANGED unitVars

\* executeSuites, one turn of the loop without -serial: wg.Add(1) and the
\* go statement.
ExecuteSuitesGo ==
    /\ mainPc = "loop"
    /\ loopI <= Len(suites)
    /\ ~serialFlag
    /\ wg' = WgAdd(wg)
    /\ taskPc' = [taskPc EXCEPT ![loopI] = "spawned"]
    /\ loopI' = loopI + 1
    /\ UNCHANGED <<serialFlag, suites, mainPc, taskK, taskSeen, executions,
                   Random, totals, exitCode, saved, suiteStatus, server>>
    /\ UNCHANGED <<boolVars, loadVars>>
    /\ UNCHANGED unitVars

\* Mutant: the loop starts Execute and goes on to its next turn.
ExecuteSuitesSerialNoWait ==
    /\ mainPc = "loop"
    /\ loopI <= Len(suites)
    /\ serialFlag
    /\ loopI' = loopI + 1
    /\ taskPc' = [taskPc EXCEPT ![loopI] = "running"]
    /\ taskK' = [taskK EXCEPT ![loopI] = 1]
    /\ executions' = [executions EXCEPT ![loopI] = @ + 1]
    /\ UNCHANGED <<serialFlag, suites, mainPc, wg, taskSeen, Random, totals,
                   exitCode, saved, suiteStatus, server>>
    /\ UNCHANGED <<boolVars, loadVars>>
    /\ UNCHANGED unitVars

\* executeSuites, one turn of the loop with -serial: suites[i].Execute() is
\* called by the loop itself.
ExecuteSuitesSerial ==
    /\ mainPc = "loop"
    /\ loopI <= Len(suites)
    /\ serialFlag
    /\ mainPc' = "serial"
    /\ taskPc' = [taskPc EXCEPT ![loopI] = "running"]
    /\ taskK' = [taskK EXCEPT ![loopI] = 1]
    /\ executions' = [executions EXCEPT ![loopI] = @ + 1]
    /\ UNCHANGED <<serialFlag, suites, loopI, wg, taskSeen, Random, totals,
                   exitCode, saved, suiteStatus, server>>
    /\ UNCHANGED <<boolVars, loadVars>>
    /\ UNCHANGED unitVars

\* The call of Execute in the serial loop returns; next turn of the loop.
ExecuteSuitesSerialNext ==
    /\ mainPc = "serial"
    /\ taskPc[loopI] = "returned"
    /\ taskPc' = [taskPc EXCEPT ![loopI] = "done"]
    /\ loopI' = loopI + 1
    /\ mainPc' = "loop"
    /\ UNCHANGED <<serialFlag, suites, wg, taskK, taskSeen, executions,
                   Random, totals, exitCode, saved, suiteStatus, server>>
    /\ UNCHANGED <<boolVars, loadVars>>
    /\ UNCHANGED unitVars

\* The loop of executeSuites is over and wg.Wait() returns: the counter is 0.
ExecuteSuitesWait ==
    /\ mainPc = "loop"
    /\ loopI > Len(suites)
    /\ wg = 0
    /\ mainPc' = "report"
    /\ UNCHANGED <<serialFlag, suites, loopI, wg, taskPc, taskK, taskSeen,
                   executions, Random, totals, exitCode, saved, suiteStatus, server>>
    /\ UNCHANGED <<boolVars, loadVars>>
    /\ UNCHANGED unitVars

\* The task of suite s is scheduled and calls suites[s].Execute().
TaskStart(s) ==
    /\ taskPc[s] = "spawned"
    /\ taskPc' = [taskPc EXCEPT ![s] = "running"]
    /\ taskK' = [taskK EXCEPT ![s] = 1]
    /\ executions' = [executions EXCEPT ![s] = @ + 1]
    /\ UNCHANGED <<serialFlag, suites, mainPc, loopI, wg, taskSeen, Random,
                   totals, exitCode, saved, suiteStatus, server>>
    /\ UNCHANGED <<boolVars, loadVars>>
    /\ UNCHANGED unitVars

\* Random.Intn in randomNumber and randomText, first half: the state of
\* the generator is read. Nothing guards the generator: a task that enters
\* while another is inside races with it.
RandomLoad(s) ==
    /\ Suspended(s)
    /\ Draws(s)
    /\ taskSeen' = [taskSeen EXCEPT ![s] = Random.pos]
    /\ taskPc' = [t \in DOMAIN taskPc |->
                     IF Inside = {} THEN (IF t = s THEN "drawing" ELSE taskPc[t])
                     ELSE IF t \in Inside \cup {s} THEN "racing"
                     ELSE taskPc[t]]
    /\ UNCHANGED <<serialFlag, suites, mainPc, loopI, wg, taskK, executions,
                   Random, totals, exitCode, saved, suiteStatus, server>>
    /\ UNCHANGED <<boolVars, loadVars>>
    /\ UNCHANGED unitVars

\* Random.Intn, second half: the advanced state is written back, and the
\* draw is done. After a race the generator is one of the outcomes of the
\* race.
RandomStore(s) ==
    /\ s \in Inside
    /\ Random' \in IF taskPc[s] = "racing"
                   THEN RaceOutcomes(Random, taskSeen[s])
                   ELSE {[Random EXCEPT !.pos = taskSeen[s] + 1]}
    /\ taskSeen' = [taskSeen EXCEPT ![s] = 0]
    /\ suites' = [suites EXCEPT ![s][taskK[s]].Drawn = @ + 1]
    /\ taskPc' = [taskPc EXCEPT ![s] = "running"]
    /\ UNCHANGED <<serialFlag, mainPc, loopI, wg, taskK,
                   executions, totals, exitCode, saved, suiteStatus, server>>
    /\ UNCHANGED <<boolVars, loadVars>>
    /\ UNCHANGED unitVars

\* Random.Intn panics in a race: a task that sees a position of the state
\* decremented by the other task before it is wrapped indexes the state
\* out of range. The panic of a goroutine is not recovered: the Go
\* runtime ends the process, with all its tasks, with exit status 2, and
\* executeSuites does not return.
RandomPanic(s) ==
    /\ taskPc[s] = "racing"
    /\ taskPc' = [t \in DOMAIN taskPc |-> "killed"]
    /\ mainPc' = "crashed"
    /\ exitCode' = 2
    /\ UNCHANGED <<serialFlag, suites, loopI, wg, taskK, taskSeen,
                   executions, Random, totals, saved, suiteStatus, server>>
    /\ UNCHANGED <<boolVars, loadVars>>
    /\ UNCHANGED unitVars

\* Suite.Execute runs its next test, for which all draws are done.
TestRunStep(s) ==
    /\ Suspended(s) /\ ~Draws(s)
    /\ suites' = [suites EXCEPT ![s][taskK[s]] = TestRun(Current(s), server)]
    /\ taskPc' = [taskPc EXCEPT ![s] = "running"]
    /\ taskK' = [taskK EXCEPT ![s] = @ + 1]
    /\ UNCHANGED <<serialFlag, mainPc, loopI, wg, taskSeen, executions,
                   Random, totals, exitCode, saved, suiteStatus, server>>
    /\ UNCHANGED <<boolVars, loadVars>>
    /\ UNCHANGED unitVars

\* Suite.Execute returns after its last test.
SuiteExecuteReturn(s) ==
    /\ taskPc[s] = "running"
    /\ taskK[s] > Len(suites[s])
    /\ taskPc' = [taskPc EXCEPT ![s] = "returned"]
    /\ UNCHANGED <<serialFlag, suites, mainPc, loopI, wg, taskK, taskSeen,
                   executions, Random, totals, exitCode, saved, suiteStatus, server>>
    /\ UNCHANGED <<boolVars, loadVars>>
    /\ UNCHANGED unitVars

\* The task of suite s ends with wg.Done().
TaskDone(s) ==
    /\ ~serialFlag
    /\ taskPc[s] = "returned"
    /\ wg' = WgDone(wg)
    /\ taskPc' = [taskPc EXCEPT ![s] = "done"]
    /\ UNCHANGED <<serialFlag, suites, mainPc, loopI, taskK, taskSeen,
                   executions, Random, totals, exitCode, saved, suiteStatus, server>>
    /\ UNCHANGED <<boolVars, loadVars>>
    /\ UNCHANGED unitVars

\* runExecute after executeSuites: the statistics, the saving of the
\* results, and os.Exit. When a save fails, log.Panic ends runExecute
\* before os.Exit is reached; the panic is not recovered, and the Go
\* runtime ends the process with exit status 2.
RunExecuteReport ==
    /\ mainPc = "report"
    /\ \E saves \in [1..Len(suites) -> Saves] :
          \E out \in {CountSuites(NoTotals, suites, 1, saves)} :
             /\ totals' = out.totals
             /\ saved' = out.saved
             /\ exitCode' = IF out.panic THEN 2 ELSE ExitCode(out.totals)
             /\ mainPc' = IF out.panic THEN "panicked" ELSE "exited"
    /\ UNCHANGED <<serialFlag, suites, loopI, wg, taskPc, taskK, taskSeen,
                   executions, Random, suiteStatus, server>>
    /\ UNCHANGED <<boolVars, loadVars>>
    /\ UNCHANGED unitVars

ExecNext ==
    \/ PrepareExecution
    \/ ExecuteSuitesGo
    \/ ExecuteSuitesSerial
    \/ ExecuteSuitesSerialNext
    \/ ExecuteSuitesWait
    \/ \E s \in 1..NumSuites : TaskStart(s)
    \/ \E s \in 1..NumSuites : RandomLoad(s)
    \/ \E s \in 1..NumSuites : RandomStore(s)
    \/ \E s \in 1..NumSuites : RandomPanic(s)
    \/ \E s \in 1..NumSuites : TestRunStep(s)
    \/ \E s \in 1..NumSuites : SuiteExecuteReturn(s)
    \/ \E s \in 1..NumSuites : TaskDone(s)
    \/ RunExecuteReport

SpecExec == ExecInit /\ [][ExecNext]_vars

\* ------------------------------------------------------------------------
\* The results of a finished run

\* A test as a run leaves it in status st.
FinishedTest(st) ==
    [Group |-> "Tests", PollMax |-> IF st = Skipped THEN -1 ELSE 0,
     RandomDraws |-> 0, Drawn |-> 0, Status |-> st,
     Requests |-> IF st \in {Pass, Fail, Error} THEN 1 ELSE 0]

FinishedTests == {FinishedTest(st) : st \in Statuses}

\* The state in which executeSuites has returned.
ReportInit ==
    /\ serialFlag = FALSE
    /\ suites \in [1..RepSuites -> SeqsUpTo(FinishedTests, RepTests)]
    /\ mainPc = "report"
    /\ loopI = RepSuites + 1
    /\ wg = 0
    /\ taskPc = [s \in 1..RepSuites |-> "done"]
    /\ taskK = [s \in 1..RepSuites |-> Len(suites[s]) + 1]
    /\ taskSeen = [s \in 1..RepSuites |-> 0]
    /\ executions = [s \in 1..RepSuites |-> 1]
    /\ Random = NewRand("flag")
    /\ totals = NoTotals
    /\ exitCode = Unset
    /\ saved = <<>>
    /\ suiteStatus = [s \in 1..RepSuites |-> Unset]
    /\ server = Unset
    /\ BoolIdle
    /\ LoadIdle
    /\ UnitIdle

\* The rollup of the results of suite s.
CombineTestsStep(s) ==
    /\ mainPc \in {"report", "exited"}
    /\ suiteStatus[s] = Unset
    /\ suiteStatus' = [suiteStatus EXCEPT
                          ![s] = CombineTests([TestResults |-> suites[s]])]
    /\ UNCHANGED <<serialFlag, suites, mainPc, loopI, wg, taskPc, taskK,
                   taskSeen, executions, Random, totals, exitCode, saved, server>>
    /\ UNCHANGED <<boolVars, loadVars>>
    /\ UNCHANGED unitVars

ReportNext ==
    \/ RunExecuteReport
    \/ \E s \in 1..RepSuites : CombineTestsStep(s)

SpecReport == ReportInit /\ [][ReportNext]_vars


\* ------------------------------------------------------------------------
\* Loading suites with -only and -skip, and running the loaded tests

\* All subsets of S with at most n elements.
SubsetsUpTo(S, n) == {f \in SUBSET S : Cardinality(f) <= n}

\* The tests of a suite file: all enabled but for the test at position
\* off, if any, which the file disables.
FileSuite(off) ==
    [k \in 1..Len(FileGroups) |->
        NewTest(FileGroups[k], IF k = off THEN -1 ELSE 0, 0)]

LoadInit ==
    /\ onlyFlag \in SubsetsUpTo(FlagTokens, MaxIDs)
    /\ skipFlag \in SubsetsUpTo(FlagTokens, MaxIDs)
    /\ loadPc = "flags"
    /\ runS = 0
    /\ runK = 0
    /\ serialFlag = FALSE
    /\ \E off \in 0..Len(FileGroups) :
          suites = [s \in 1..LoadSuites |-> FileSuite(off)]
    /\ mainPc = "idle"
    /\ loopI = 0
    /\ wg = 0
    /\ taskPc = <<>>
    /\ taskK = <<>>
    /\ taskSeen = <<>>
    /\ executions = <<>>
    /\ Random = NewRand("init")
    /\ totals = NoTotals
    /\ exitCode = Unset
    /\ saved = <<>>
    /\ suiteStatus = <<>>
    /\ server \in RunOutcomes
    /\ BoolIdle
    /\ UnitIdle

\* loadSuites: the flags are split and every test of every suite is passed
\* to shouldRun.
LoadSuitesStep ==
    /\ loadPc = "flags"
    /\ suites' = DisableTests(suites, splitTestIDs(onlyFlag),
                              splitTestIDs(skipFlag))
    /\ loadPc' = "loaded"
    /\ runS' = 1
    /\ runK' = 1
    /\ UNCHANGED <<onlyFlag, skipFlag>>
    /\ UNCHANGED <<serialFlag, mainPc, loopI, wg, taskPc, taskK, taskSeen,
                   executions, Random, totals, exitCode, saved, suiteStatus, server>>
    /\ UNCHANGED boolVars
    /\ UNCHANGED unitVars

\* The next loaded test is run.
LoadedTestRun ==
    /\ loadPc = "loaded"
    /\ runS <= Len(suites)
    /\ runK <= Len(suites[runS])
    /\ suites' = [suites EXCEPT ![runS] = SuiteExecuteTest(@, runK, server)]
    /\ runK' = runK + 1
    /\ UNCHANGED <<onlyFlag, skipFlag, loadPc, runS>>
    /\ UNCHANGED <<serialFlag, mainPc, loopI, wg, taskPc, taskK, taskSeen,
                   executions, Random, totals, exitCode, saved, suiteStatus, server>>
    /\ UNCHANGED boolVars
    /\ UNCHANGED unitVars

\* The tests of a suite are done: on to the next suite, or the end.
LoadedSuiteDone ==
    /\ loadPc = "loaded"
    /\ runS <= Len(suites)
    /\ runK > Len(suites[runS])
    /\ runS' = runS + 1
    /\ runK' = 1
    /\ loadPc' = IF runS = Len(suites) THEN "ran" ELSE "loaded"
    /\ UNCHANGED <<onlyFlag, skipFlag>>
    /\ UNCHANGED execVars
    /\ UNCHANGED boolVars
    /\ UNCHANGED unitVars

LoadNext ==
    \/ LoadSuitesStep
    \/ LoadedTestRun
    \/ LoadedSuiteDone

SpecLoad == LoadInit /\ [][LoadNext]_vars

\* ------------------------------------------------------------------------
\* Properties of the rollup, the exit code and the execution of suites

\* The statuses of the tests of suite s, and of all tests.
StatusesOf(s) == {suites[s][k].Status : k \in 1..Len(suites[s])}
AllStatuses == UNION {StatusesOf(s) : s \in DOMAIN suites}

\* runExecute has called os.Exit.
Exited == mainPc = "exited"

\* runExecute has ended in log.Panic.
Panicked == mainPc = "panicked"

\* The results of every suite have been saved.
AllSaved ==
    /\ Len(saved) = Len(suites)
    /\ \A s \in DOMAIN saved : saved[s] = "saved"

\* C6: NotRun < Skipped < Pass < Fail < Error < Bogus, and the rollup of a
\* suite is the maximum of the statuses of its tests: not below any test's
\* status, the status of one of the tests, and NotRun without tests.
C6_RollupIsMax ==
    /\ NotRun < Skipped /\ Skipped < Pass /\ Pass < Fail
    /\ Fail < Error /\ Error < Bogus
    /\ \A s \in DOMAIN suiteStatus :
          suiteStatus[s] # Unset =>
              /\ \A st \in StatusesOf(s) : suiteStatus[s] >= st
              /\ StatusesOf(s) # {} => suiteStatus[s] \in StatusesOf(s)
              /\ StatusesOf(s) = {} => suiteStatus[s] = NotRun

\* A suite with the results <<Error, Fail>> is rolled up to Error.
C6_Witness ==
    \E s \in DOMAIN suiteStatus :
        /\ Len(suites[s]) = 2
        /\ suites[s][1].Status = Error /\ suites[s][2].Status = Fail
        /\ suiteStatus[s] = Error

\* The part of C7 on the codes 3, 2 and 1.
ExitCodeByWorst ==
    /\ exitCode = 3 <=> Bogus \in AllStatuses
    /\ exitCode = 2 <=> (Bogus \notin AllStatuses /\ Error \in AllStatuses)
    /\ exitCode = 1 <=> (AllStatuses \cap {Bogus, Error} = {}
                         /\ Fail \in AllStatuses)

\* C7 as stated: the exit code is 3 with a Bogus test, else 2 with an Error
\* test, else 1 with a Fail test, and 0 iff all tests passed.
C7_Original ==
    Exited =>
        /\ ExitCodeByWorst
        /\ exitCode = 0 <=> AllStatuses \subseteq {Pass}

\* C7 amended: when the results of every suite have been saved, the exit
\* code is 3 with a Bogus test, else 2 with an Error test, else 1 with a
\* Fail test, and 0 iff no test is Bogus, Error or Fail; tests that are
\* Skipped or NotRun do not change the exit code. The process ends in
\* another way only when saving the results of a suite fails: runExecute
\* then panics at that suite, and the exit status is 2 whatever the
\* statuses of the tests are.
C7_ExitCode ==
    /\ Exited =>
          /\ AllSaved
          /\ ExitCodeByWorst
          /\ exitCode = 0 <=> AllStatuses \cap {Bogus, Error, Fail} = {}
    /\ Panicked =>
          /\ exitCode = 2
          /\ saved # <<>>
          /\ saved[Len(saved)] # "saved"
          /\ \A s \in 1..(Len(saved) - 1) : saved[s] = "saved"
    /\ exitCode # Unset => (Exited \/ Panicked \/ mainPc = "crashed")

\* A run with a Fail and an Error test and no Bogus test, of which the
\* results were saved, has exit code 2.
C7_Witness ==
    /\ Exited
    /\ AllSaved
    /\ {Fail, Error} \subseteq AllStatuses
    /\ Bogus \notin AllStatuses
    /\ exitCode = 2

\* C8: every suite's Execute is called at most once at any time, and
\* without -serial executeSuites returns only when every suite's Execute
\* has been called once and has returned and the WaitGroup is at 0.
C8_ForkJoin ==
    /\ \A s \in DOMAIN executions : executions[s] <= 1
    /\ (~serialFlag /\ mainPc \in {"report", "exited", "panicked"}) =>
          /\ wg = 0
          /\ \A s \in DOMAIN taskPc :
                executions[s] = 1 /\ taskPc[s] \in {"returned", "done"}

\* executeSuites has returned from a concurrent run in which every suite
\* ran a test.
C8_Witness ==
    /\ ~serialFlag
    /\ mainPc = "report"
    /\ \A s \in DOMAIN suites :
          Len(suites[s]) >= 1 /\ suites[s][1].Status # NotRun

\* The suites whose Execute has been called and has not returned.
Executing ==
    {s \in DOMAIN taskPc : taskPc[s] \in {"running", "drawing", "racing"}}

\* C22: with -serial executeSuites runs the suites in list order and one
\* after the other: only the suite of the current turn of the loop is
\* executing, the Execute of every suite before it has been called once
\* and has returned, and that of no suite after it has been called; so at
\* most one suite is executing at any time.
C22_SerialOrder ==
    serialFlag =>
      /\ Cardinality(Executing) <= 1
      /\ \A s \in DOMAIN taskPc :
           /\ s \in Executing => (s = loopI /\ mainPc = "serial")
           /\ s < loopI => (taskPc[s] = "done" /\ executions[s] = 1)
           /\ s > loopI => (taskPc[s] = "unstarted" /\ executions[s] = 0)

\* The second suite of a serial run is executing after the first one ran a
\* test and returned.
C22_Witness ==
    /\ serialFlag
    /\ mainPc = "serial" /\ loopI = 2
    /\ 2 \in Executing
    /\ taskPc[1] = "done"
    /\ Len(suites[1]) >= 1 /\ suites[1][1].Status # NotRun
    /\ Len(suites[2]) >= 1

\* The tasks that are inside Random.Intn.
Drawing == Inside

\* C9: the accesses to the shared generator ht.Random are guarded: no two
\* tasks are in a draw at the same time.
C9_RandomGuarded == Cardinality(Drawing) <= 1

\* The ids of the -only and of the -skip set.
OnlySet == splitTestIDs(onlyFlag)
SkipSet == splitTestIDs(skipFlag)

\* Test k of suite s is to be disabled: its id is in the -skip set, or the
\* -only set is not empty and its id is not in it.
ToDisable(s, k) ==
    \/ LoadedID(suites, s, k) \in SkipSet
    \/ OnlySet # {} /\ LoadedID(suites, s, k) \notin OnlySet

\* The run of the loaded tests is past test k of suite s and has executed
\* it.
HasRun(s, k) ==
    /\ \/ loadPc = "ran"
       \/ loadPc = "loaded" /\ (s < runS \/ (s = runS /\ k < runK))
    /\ Executes(suites[s], k)

\* The positions of all loaded tests.
LoadedTests == {<<s, k>> : s \in 1..LoadSuites, k \in 1..Len(FileGroups)}

\* loadSuites changes Poll.Max of the tests to disable to -1 and nothing else.
LoadDisables ==
    loadPc = "flags" =>
        \A p \in LoadedTests :
            suites'[p[1]][p[2]] =
                IF ToDisable(p[1], p[2])
                THEN [suites[p[1]][p[2]] EXCEPT !.PollMax = -1]
                ELSE suites[p[1]][p[2]]

\* The status of a test with negative Poll.Max changes only from NotRun to
\* Skipped.
SkipsDirectly ==
    \A p \in LoadedTests :
        (/\ suites[p[1]][p[2]].PollMax < 0
         /\ suites'[p[1]][p[2]].Status # suites[p[1]][p[2]].Status)
        => /\ suites[p[1]][p[2]].Status = NotRun
           /\ suites'[p[1]][p[2]].Status = Skipped

\* No request has been made for a test with negative Poll.Max, and once it
\* has been run it is Skipped.
NoRequestWhenDisabled ==
    loadPc \in {"loaded", "ran"} =>
        \A p \in LoadedTests :
            suites[p[1]][p[2]].PollMax < 0 =>
                /\ suites[p[1]][p[2]].Requests = 0
                /\ suites[p[1]][p[2]].Status =
                      IF HasRun(p[1], p[2]) THEN Skipped ELSE NotRun

\* C10: a test with negative Poll.Max goes from NotRun directly to Skipped
\* and no request is made for it; loadSuites sets Poll.Max to -1 for the
\* tests whose id is in the -skip set or missing from a non-empty -only set
\* and leaves every other test as it is.
C10_DisabledTestsSkipped ==
    /\ []NoRequestWhenDisabled
    /\ [][SkipsDirectly]_vars
    /\ [][LoadDisables]_vars

\* After a run with both flags set: a test named by -skip and a test
\* missing from -only are Skipped without request, and a test named by -only
\* was requested.
C10_Witness ==
    /\ loadPc = "ran"
    /\ OnlySet # {} /\ SkipSet # {}
    /\ \E p \in LoadedTests :
          /\ LoadedID(suites, p[1], p[2]) \in SkipSet
          /\ suites[p[1]][p[2]].Status = Skipped
          /\ suites[p[1]][p[2]].Requests = 0
    /\ \E p \in LoadedTests :
          /\ LoadedID(suites, p[1], p[2]) \notin SkipSet \cup OnlySet
          /\ suites[p[1]][p[2]].Status = Skipped
    /\ \E p \in LoadedTests :
          /\ LoadedID(suites, p[1], p[2]) \in OnlySet
          /\ suites[p[1]][p[2]].Requests = 1

\* ------------------------------------------------------------------------
\* Helpers of the properties

\* Positions of the sub-checks of Of whose Execute returns nil.
Passing == {j \in 1..Len(Of) : IsNil(Of[j].exec)}

\* Position of the first passing sub-check (Len(Of)+1 if there is none).
FirstPassing ==
    IF Passing = {} THEN Len(Of) + 1
    ELSE CHOOSE j \in Passing : \A k \in Passing : j <= k

\* The sequence <<1, ..., n>>.
UpTo(n) == [j \in 1..n |-> j]

\* Number of entries of the call log that name sub-check j.
Times(calls, j) == Cardinality({p \in 1..Len(calls) : calls[p] = j})

AnyOneExecuted == execRes.op = "AnyOne.Execute"
NoneExecuted == execRes.op = "None.Execute"
Prepared == prepRes.op \in {"AnyOne.Prepare", "None.Prepare"}

\* C1: AnyOne.Execute runs the sub-checks in declaration order and stops at
\* the first that returns nil: it returns nil iff some sub-check returns nil,
\* every sub-check up to the first passing one is executed exactly once, in
\* order, and none after it is executed.
C1_AnyOneShortCircuit ==
    AnyOneExecuted =>
        /\ IsNil(execRes.err) <=> Passing # {}
        /\ \A j \in 1..Len(Of) :
              Times(execRes.calls, j) = IF j <= FirstPassing THEN 1 ELSE 0
        /\ \A p \in 1..Len(execRes.calls) : execRes.calls[p] = p

\* The case [fail, pass, fail]: succeeded, sub-check at Go index 2 not run.
C1_Witness ==
    /\ AnyOneExecuted
    /\ Len(Of) = 3
    /\ ~IsNil(Of[1].exec) /\ IsNil(Of[2].exec) /\ ~IsNil(Of[3].exec)
    /\ IsNil(execRes.err)
    /\ execRes.calls = <<1, 2>>

\* C2: when every sub-check fails, AnyOne.Execute returns an ErrorList with
\* the error of every sub-check, one entry per sub-check, in declaration
\* order.
C2_AnyOneAllErrors ==
    (AnyOneExecuted /\ Passing = {}) =>
        /\ execRes.err.kind = "ErrorList"
        /\ Len(execRes.err.errs) = Len(Of)
        /\ \A j \in 1..Len(Of) : execRes.err.errs[j] = Of[j].exec

\* Three failing sub-checks whose first and last errors differ.
C2_Witness ==
    /\ AnyOneExecuted
    /\ Len(Of) = 3
    /\ Passing = {}
    /\ Of[1].exec # Of[3].exec
    /\ Len(execRes.err.errs) = 3

\* C27: None is the negation of AnyOne: for every list Of, the empty one
\* included, exactly one of AnyOne.Execute and None.Execute returns nil, and
\* both execute the same sub-checks, those up to and including the first
\* passing one; AnyOne with an empty Of returns an error that is not nil
\* and None with an empty Of returns nil.
C27_NoneNegatesAnyOne ==
    (AnyOneExecuted \/ NoneExecuted) =>
        LET a == AnyOneExecute(Of)
            n == NoneExecute(Of)
        IN  /\ AnyOneExecuted => execRes = Result("AnyOne.Execute", a)
            /\ NoneExecuted => execRes = Result("None.Execute", n)
            /\ IsNil(a.err) # IsNil(n.err)
            /\ a.calls = n.calls
            /\ a.calls = UpTo(IF Passing = {} THEN Len(Of) ELSE FirstPassing)
            /\ Len(Of) = 0 => (~IsNil(a.err) /\ IsNil(n.err))

\* AnyOne without sub-checks was executed and returned an error that is
\* not nil: the empty ErrorList.
C27_Witness ==
    /\ AnyOneExecuted
    /\ Len(Of) = 0
    /\ ~IsNil(execRes.err)
    /\ execRes.err = ErrorList(<<>>)
    /\ IsNil(NoneExecute(Of).err)

\* C3: None.Execute returns nil iff every sub-check returns an error; it runs
\* the sub-checks in order and stops at the first that returns nil.
C3_NoneShortCircuit ==
    NoneExecuted =>
        /\ IsNil(execRes.err) <=> Passing = {}
        /\ execRes.calls = UpTo(IF Passing = {} THEN Len(Of) ELSE FirstPassing)

\* None over [fail, pass, pass] fails after two sub-checks.
C3_Witness ==
    /\ NoneExecuted
    /\ Len(Of) = 3
    /\ Passing = {2, 3}
    /\ ~IsNil(execRes.err)
    /\ execRes.calls = <<1, 2>>

\* C4 as stated: the error of a failing None carries the index in Of (from
\* 0, as Go counts) of the sub-check that passed: index 1 for [fail, pass].
C4_Original ==
    (NoneExecuted /\ ~IsNil(execRes.err)) =>
        execRes.err.n = GoIndex(FirstPassing)

\* C4 amended: the error of a failing None names the sub-check that passed
\* by its position counted from 1, that is index + 1: "check 2 passed" for
\* [fail, pass].
C4_NoneReportsPosition ==
    (NoneExecuted /\ ~IsNil(execRes.err)) =>
        /\ execRes.err.kind = "check %d passed"
        /\ execRes.err.n = GoIndex(FirstPassing) + 1

\* None over [fail, pass] failed with "check 2 passed".
C4_Witness ==
    /\ NoneExecuted
    /\ Len(Of) = 2
    /\ ~IsNil(Of[1].exec) /\ IsNil(Of[2].exec)
    /\ execRes.err = ErrorfCheckPassed(2)

\* Positions of the malformed sub-checks.
Malformed == {j \in 1..Len(Of) : ~IsNil(Of[j].prep)}

\* The Prepare errors of the malformed sub-checks, in declaration order.
PrepErrors == SelectSeq([j \in 1..Len(Of) |-> Of[j].prep], LAMBDA e : ~IsNil(e))

\* C5: Prepare of AnyOne and of None calls Prepare of every sub-check, once
\* and in order, returns nil iff every sub-check's Prepare returns nil, and
\* otherwise returns an ErrorList with the error of every malformed
\* sub-check.
C5_PrepareExhaustive ==
    Prepared =>
        /\ prepRes.calls = UpTo(Len(Of))
        /\ IsNil(prepRes.err) <=> Malformed = {}
        /\ Malformed # {} => prepRes.err = ErrorList(PrepErrors)

\* A combinator with two malformed sub-checks, then a good one: both
\* errors are reported and the third Prepare is still called.
C5_Witness ==
    /\ Prepared
    /\ Len(Of) = 3
    /\ Malformed = {1, 2}
    /\ Len(prepRes.err.errs) = 2
    /\ prepRes.calls = <<1, 2, 3>>

\* ------------------------------------------------------------------------
\* Checks of a test: Image (ht/image.go) and ResponseTime (ht/time.go)

\* MalformedCheck{err} and CantCheck{err}.
MalformedCheck(err) == [kind |-> "MalformedCheck", errs |-> <<err>>, n |-> 0]
CantCheck(err) == [kind |-> "CantCheck", errs |-> <<err>>, n |-> 0]

\* fmt.Errorf(format, n) and the error of a parser of the packages used.
Errorf(format, n) == [kind |-> format, errs |-> <<>>, n |-> n]
ParseError == Errorf("parse error", 0)

\* The digits of base 32 in their two cases, of which the first 16 are the
\* hexadecimal ones.
Base32 ==
    <<"0", "1", "2", "3", "4", "5", "6", "7", "8", "9", "a", "b", "c", "d",
      "e", "f", "g", "h", "i", "j", "k", "l", "m", "n", "o", "p", "q", "r",
      "s", "t", "u", "v">>

Base32Upper ==
    <<"0", "1", "2", "3", "4", "5", "6", "7", "8", "9", "A", "B", "C", "D",
      "E", "F", "G", "H", "I", "J", "K", "L", "M", "N", "O", "P", "Q", "R",
      "S", "T", "U", "V">>

\* strconv.ParseUint(c, base, 64) of one character: its value, or -1 for
\* a character that is no digit of the base. A letter is a digit in either
\* case.
ParseUint(c, base) ==
    IF \E i \in 1..base : c \in {Base32[i], Base32Upper[i]}
    THEN (CHOOSE i \in 1..base : c \in {Base32[i], Base32Upper[i]}) - 1
    ELSE -1

\* The number of bins of a colour histogram.
HistBins == 24

\* int(256 * math.Pow((a + 0.5) / 32, 1 / gamma)), at most 255, for the
\* digits a = 1 .. 31.
Rescaled ==
    <<8, 15, 21, 28, 36, 43, 51, 58, 66, 74, 82, 90, 98, 106, 114, 122, 130,
      139, 147, 156, 164, 173, 181, 190, 198, 207, 216, 225, 233, 242, 251>>

\* fingerprint.ColorHistFromString(s): the histogram and the error.
ColorHistFromString(s) ==
    IF Len(s) # HistBins THEN [hash |-> <<>>, err |-> ParseError]
    ELSE IF \E i \in 1..Len(s) : s[i] # "0" /\ ParseUint(s[i], 32) < 0
    THEN [hash |-> <<>>, err |-> ParseError]
    ELSE [hash |-> [i \in 1..HistBins |->
                       IF s[i] = "0" THEN 0 ELSE Rescaled[ParseUint(s[i], 32)]],
          err |-> Nil]

\* ------------------------------------------------------------------------
\* The float64 numbers of the distances. A number that is not negative is
\* m * 2^e with a mantissa m of 53 bits, or it is 0; a mantissa is a natural
\* number kept as its digits to the base 2^15, the lowest first and the
\* highest not 0, and 0 has no digits. Every operation rounds its exact
\* result to the nearest float64, in a tie to the one with the even
\* mantissa, each operation on its own as in a build without fused
\* multiply-add. The numbers here are far from the least and the greatest
\* float64. An operator takes the values of its arguments first
\* (x \in {a}), so that each is computed once.

Limb == 2^15

\* The natural number n < 2^31.
Natural(n) ==
    IF n = 0 THEN <<>>
    ELSE IF n < Limb THEN <<n>>
    ELSE IF n < Limb * Limb THEN <<n % Limb, n \div Limb>>
    ELSE <<n % Limb, (n \div Limb) % Limb, n \div (Limb * Limb)>>

\* a without the digits 0 at its top.
BigTrim(a) ==
    CHOOSE t \in
       {SubSeq(x, 1, CHOOSE i \in 0..Len(x) :
                        /\ i = 0 \/ x[i] # 0
                        /\ \A j \in (i + 1)..Len(x) : x[j] = 0) :
           x \in {a}} : TRUE

\* The digits of a + b from digit i on, with the carry c.
RECURSIVE BigAddFrom(_, _, _, _)
BigAddFrom(a, b, i, c) ==
    IF i > Len(a) /\ i > Len(b) THEN (IF c = 0 THEN <<>> ELSE <<c>>)
    ELSE CHOOSE s \in
            {<<x % Limb>> \o BigAddFrom(a, b, i + 1, x \div Limb) :
                x \in {(IF i > Len(a) THEN 0 ELSE a[i])
                       + (IF i > Len(b) THEN 0 ELSE b[i]) + c}} : TRUE

\* a + b
BigAdd(a, b) ==
    CHOOSE s \in {BigAddFrom(x, y, 1, 0) : x \in {a}, y \in {b}} : TRUE

\* The digits of a - b from digit i on, with the borrow c, where a >= b.
RECURSIVE BigSubFrom(_, _, _, _)
BigSubFrom(a, b, i, c) ==
    IF i > Len(a) THEN <<>>
    ELSE CHOOSE s \in
            {<<(x + Limb) % Limb>> \o
             BigSubFrom(a, b, i + 1, IF x < 0 THEN 1 ELSE 0) :
                x \in {a[i] - (IF i > Len(b) THEN 0 ELSE b[i]) - c}} : TRUE

\* a - b for a >= b.
BigSub(a, b) ==
    CHOOSE s \in {BigTrim(BigSubFrom(x, y, 1, 0)) : x \in {a}, y \in {b}} :
       TRUE

\* a < b
BigLess(a, b) ==
    CHOOSE l \in
       {\/ Len(x) < Len(y)
        \/ /\ Len(x) = Len(y)
           /\ \E i \in 1..Len(x) :
                 /\ x[i] < y[i]
                 /\ \A j \in (i + 1)..Len(x) : x[j] = y[j] :
           x \in {a}, y \in {b}} : TRUE

\* The digits of a * k from digit i on, with the carry c, for
\* 0 < k <= 2^15.
RECURSIVE BigTimesFrom(_, _, _, _)
BigTimesFrom(a, k, i, c) ==
    IF i > Len(a) THEN (IF c = 0 THEN <<>> ELSE <<c>>)
    ELSE CHOOSE s \in
            {<<x % Limb>> \o BigTimesFrom(a, k, i + 1, x \div Limb) :
                x \in {a[i] * k + c}} : TRUE

\* a * k for 0 < k <= 2^15.
BigTimes(a, k) ==
    CHOOSE s \in {BigTimesFrom(x, y, 1, 0) : x \in {a}, y \in {k}} : TRUE

\* a times the digits of b from digit i on.
RECURSIVE BigMulFrom(_, _, _)
BigMulFrom(a, b, i) ==
    IF i > Len(b) THEN <<>>
    ELSE CHOOSE p \in
            {BigAdd(IF b[i] = 0 THEN <<>> ELSE BigTimes(a, b[i]),
                    IF Len(rest) = 0 THEN <<>> ELSE <<0>> \o rest) :
                rest \in {BigMulFrom(a, b, i + 1)}} : TRUE

\* a * b
BigMul(a, b) ==
    CHOOSE p \in {BigMulFrom(x, y, 1) : x \in {a}, y \in {b}} : TRUE

\* a * 2^n
BigShl(a, n) ==
    CHOOSE s \in
       {IF Len(x) = 0 THEN <<>>
        ELSE [i \in 1..(k \div 15) |-> 0] \o BigTimes(x, 2^(k % 15)) :
           x \in {a}, k \in {n}} : TRUE

\* a \div 2^n
BigShr(a, n) ==
    CHOOSE s \in
       {BigTrim([i \in 1..Len(b) |->
                    (b[i] \div 2^k)
                    + (IF i < Len(b) THEN (b[i + 1] % 2^k) * 2^(15 - k)
                       ELSE 0)]) :
           b \in {SubSeq(a, (n \div 15) + 1, Len(a))}, k \in {n % 15}} : TRUE

\* The number of the bits of a.
BitLen(a) ==
    CHOOSE l \in
       {IF Len(x) = 0 THEN 0
        ELSE 15 * (Len(x) - 1) + (CHOOSE k \in 1..15 : x[Len(x)] < 2^k) :
           x \in {a}} : TRUE

\* A float64 that is not negative, and the one that is no number.
Float(m, e) == [nan |-> FALSE, m |-> m, e |-> e]
Zero == Float(<<>>, 0)
NaN == [nan |-> TRUE, m |-> <<>>, e |-> 0]

\* The float64 nearest to n * 2^e for n of more than 53 bits, of which
\* q are the highest 53 and s the number of the others: the nearest is
\* above when the bits cut off are more than half a unit of q, or are
\* half a unit with q odd or with something cut off below n (sticky).
RoundOff(n, e, sticky, q, s) ==
    CHOOSE f \in
       {IF BitLen(up) > 53 THEN Float(BigShr(up, 1), e + s + 1)
        ELSE Float(up, e + s) :
           up \in {CHOOSE u \in
                      {IF \/ BigLess(half, rest)
                          \/ /\ ~BigLess(rest, half)
                             /\ (sticky \/ q[1] % 2 = 1)
                       THEN BigAdd(q, <<1>>) ELSE q :
                          rest \in {BigSub(n, BigShl(q, s))},
                          half \in {BigShl(<<1>>, s - 1)}} : TRUE}} : TRUE

\* The float64 nearest to n * 2^e, or to a number a little above it when
\* sticky says that something was cut off below the bits of n.
Round64(n, e, sticky) ==
    CHOOSE f \in
       {CHOOSE g \in
           {IF l = 0 THEN Zero
            ELSE IF l <= 53 THEN Float(BigShl(x, 53 - l), ex - (53 - l))
            ELSE CHOOSE h \in {RoundOff(x, ex, st, q, l - 53) :
                                  q \in {BigShr(x, l - 53)}} : TRUE :
               l \in {BitLen(x)}} : TRUE :
          x \in {n}, ex \in {e}, st \in {sticky}} : TRUE

\* float64(n) of an integer 0 <= n < 2^31.
Float64(n) ==
    CHOOSE f \in {Round64(Natural(v), 0, FALSE) : v \in {n}} : TRUE

\* The floats x and y as mantissas a and b of the lesser of their two
\* exponents e.
Aligned(x, y) ==
    CHOOSE al \in
       {CHOOSE am \in
           {[a |-> BigShl(u.m, u.e - e), b |-> BigShl(v.m, v.e - e),
             e |-> e] :
               e \in {IF u.e < v.e THEN u.e ELSE v.e}} : TRUE :
          u \in {x}, v \in {y}} : TRUE

\* x * y
F64Mul(x, y) ==
    CHOOSE f \in {IF Len(u.m) = 0 \/ Len(v.m) = 0 THEN Zero
                  ELSE Round64(BigMul(u.m, v.m), u.e + v.e, FALSE) :
                     u \in {x}, v \in {y}} : TRUE

\* x + y
F64Add(x, y) ==
    CHOOSE f \in
       {IF Len(v.m) = 0 THEN u
        ELSE IF Len(u.m) = 0 THEN v
        ELSE CHOOSE g \in {Round64(BigAdd(al.a, al.b), al.e, FALSE) :
                              al \in {Aligned(u, v)}} : TRUE :
           u \in {x}, v \in {y}} : TRUE

\* x < y
F64Less(x, y) ==
    CHOOSE l \in {BigLess(al.a, al.b) : al \in {Aligned(x, y)}} : TRUE

\* |x - y|: the difference, with its sign taken off.
F64Dist(x, y) ==
    CHOOSE f \in
       {IF Len(v.m) = 0 THEN u
        ELSE IF Len(u.m) = 0 THEN v
        ELSE CHOOSE g \in
                {Round64(IF BigLess(al.a, al.b) THEN BigSub(al.b, al.a)
                         ELSE BigSub(al.a, al.b), al.e, FALSE) :
                    al \in {Aligned(u, v)}} : TRUE :
           u \in {x}, v \in {y}} : TRUE

\* The greatest digit q <= guess with d * q <= r.
RECURSIVE QuoDigit(_, _, _)
QuoDigit(r, d, guess) ==
    IF guess = 0 THEN 0
    ELSE IF BigLess(r, BigTimes(d, guess)) THEN QuoDigit(r, d, guess - 1)
    ELSE guess

\* The digit r \div d of a long division by d, whose highest digit is at
\* least 2^14, with r < d * 2^15: the two highest digits of r over the
\* highest of d are at most two above it.
NextDigit(r, d) ==
    CHOOSE q \in
       {QuoDigit(r, d, IF guess >= Limb THEN Limb - 1 ELSE guess) :
           guess \in {((IF Len(r) > Len(d) THEN r[Len(d) + 1] * Limb ELSE 0)
                       + (IF Len(r) >= Len(d) THEN r[Len(d)] ELSE 0))
                      \div d[Len(d)]}} : TRUE

\* The long division of r * 2^(15 * k) by d after the digits q: the
\* quotient, and whether a remainder is left.
RECURSIVE LongDiv(_, _, _, _)
LongDiv(r, d, q, k) ==
    CHOOSE out \in
       {CHOOSE o \in
           {IF k = 0
            THEN [q |-> BigTrim(<<digit>> \o q), sticky |-> Len(r2) > 0]
            ELSE LongDiv(IF Len(r2) = 0 THEN r2 ELSE <<0>> \o r2, d,
                         <<digit>> \o q, k - 1) :
               r2 \in {IF digit = 0 THEN r
                       ELSE BigSub(r, BigTimes(d, digit))}} : TRUE :
          digit \in {NextDigit(r, d)}} : TRUE

\* x / y for y > 0: the mantissas are shifted by 7 bits, which brings the
\* highest digit of the divisor to 2^14 at least, and 60 bits of their
\* quotient are rounded.
F64Quo(x, y) ==
    CHOOSE f \in
       {IF Len(u.m) = 0 THEN Zero
        ELSE CHOOSE g \in
                {Round64(out.q, u.e - v.e - 60, out.sticky) :
                    out \in {CHOOSE o \in
                                {LongDiv(r, d, <<>>, 4) :
                                    r \in {BigShl(u.m, 7)},
                                    d \in {BigShl(v.m, 7)}} : TRUE}} : TRUE :
           u \in {x}, v \in {y}} : TRUE

\* float64(b) of the bytes b.
ByteFloat == [b \in 0..255 |-> Float64(b)]

\* The sum of the bins of a histogram from bin i on.
RECURSIVE SumFrom(_, _)
SumFrom(h, i) == IF i > Len(h) THEN 0 ELSE h[i] + SumFrom(h, i + 1)

\* The loop of l1Norm from bin i on: sum grows by d or by -d, which is
\* |rh * h[i] - rg * g[i]| / 255.
RECURSIVE DistFrom(_, _, _, _, _, _)
DistFrom(h, g, rh, rg, i, sum) ==
    IF i > HistBins THEN sum
    ELSE CHOOSE out \in
            {DistFrom(h, g, rh, rg, i + 1, s) :
                s \in {F64Add(sum,
                              F64Quo(F64Dist(F64Mul(rh, ByteFloat[h[i]]),
                                             F64Mul(rg, ByteFloat[g[i]])),
                                     ByteFloat[255]))}} : TRUE

\* ColorHist.l1Norm: h.l1Norm(g). For a histogram of
\* sum 0 the factor rh or rg is +Inf or NaN and its product with a bin 0
\* is NaN, and so are sum and the result. nh and ng are the sums of the
\* two histograms.
l1Norm(h, g) ==
    CHOOSE out \in
       {IF nh = 0 \/ ng = 0 THEN NaN
        ELSE CHOOSE d \in
           {F64Quo(DistFrom(h, g, rh, rg, 1, Zero),
                   F64Mul(F64Mul(Float64(HistBins), rg), rh)) :
               rh \in {IF nh > ng THEN Float64(1)
                       ELSE F64Quo(Float64(ng), Float64(nh))},
               rg \in {IF nh > ng THEN F64Quo(Float64(nh), Float64(ng))
                       ELSE Float64(1)}} : TRUE :
          nh \in {SumFrom(h, 1)}, ng \in {SumFrom(g, 1)}} : TRUE

\* fingerprint.BMVHashFromString(s): the 16 hexadecimal digits of the
\* hash and the error.
BMVHashFromString(s) ==
    IF \E i \in 1..Len(s) : ParseUint(s[i], 16) < 0
    THEN [hash |-> <<>>, err |-> ParseError]
    ELSE [hash |-> [i \in 1..Len(s) |-> ParseUint(s[i], 16)], err |-> Nil]

\* The number of bits in which two hexadecimal digits differ.
BitsApart(a, b) ==
    Cardinality({k \in 0..3 : (a \div 2^k) % 2 # (b \div 2^k) % 2})

\* The number of bits in which two hashes differ from digit i on.
RECURSIVE HammingFrom(_, _, _)
HammingFrom(h, g, i) ==
    IF i > Len(h) THEN 0
    ELSE BitsApart(h[i], g[i]) + HammingFrom(h, g, i + 1)

\* n / 64 for the numbers n of bits of a hash.
BitShare == [n \in 0..64 |-> F64Quo(Float64(n), Float64(64))]

\* fingerprint.BMVDelta(h, g): the share of the 64 bits that differ.
BMVDelta(h, g) == BitShare[HammingFrom(h, g, 1)]

\* A string of n characters "0" but for the characters at given places.
ZerosBut(n, others) ==
    [i \in 1..n |-> IF i \in DOMAIN others THEN others[i] ELSE "0"]

\* An Image check and a ResponseTime check.
Image(format, width, height, fingerprint, threshold) ==
    [Check |-> "Image", Format |-> format, Width |-> width, Height |-> height,
     Fingerprint |-> fingerprint, Threshold |-> threshold]

ResponseTime(lower, higher) ==
    [Check |-> "ResponseTime", Lower |-> lower, Higher |-> higher]

\* The body of a response as image.Decode sees it, with the hashes
\* fingerprint.NewBMVHash and fingerprint.NewColorHist compute of it.
BodyImage(decodes, bmv, hist) ==
    [decodes |-> decodes, format |-> IF decodes THEN "png" ELSE "",
     dx |-> IF decodes THEN 1 ELSE 0, dy |-> IF decodes THEN 1 ELSE 0,
     bmv |-> bmv, hist |-> hist]

\* No image, an image all red, and an image of which one half is blue and
\* the other black: the fullest bin of a histogram is 255.
NoImage == BodyImage(FALSE, <<>>, <<>>)
RedImage ==
    BodyImage(TRUE, [i \in 1..16 |-> 0],
              [i \in 1..HistBins |-> IF i = 15 THEN 255 ELSE 0])
BlueImage ==
    BodyImage(TRUE, [i \in 1..16 |-> IF i <= 8 THEN 15 ELSE 0],
              [i \in 1..HistBins |-> IF i \in {13, 24} THEN 255 ELSE 0])

\* What a request can end in: no response, or a response with its duration
\* and its body.
NoResponse == [ok |-> FALSE, Duration |-> 0, Image |-> NoImage]

Responses ==
    {NoResponse} \cup
    {[ok |-> TRUE, Duration |-> d, Image |-> img] :
        d \in {1, 3}, img \in {NoImage, RedImage, BlueImage}}

\* The checks a test can hold: Image checks with no fingerprint, with
\* hashes near those of the red image, one with an upper-case digit and
\* one whose distance to the red image is not 0 only by rounding, with a
\* histogram of nothing but zeros, with fingerprints that do not parse and
\* with one of a length that is none; ResponseTime checks with no bound,
\* one bound and two.
ImageChecks ==
    {Image("", 0, 0, <<>>, 0),
     Image("", 0, 0, ZerosBut(16, <<"f">>), 10),
     Image("", 0, 0, ZerosBut(16, <<"z">>), 0),
     Image("", 0, 0, ZerosBut(HistBins, (15 :> "v")), 0),
     Image("", 0, 0, ZerosBut(HistBins, (15 :> "v")), 10),
     Image("", 0, 0, ZerosBut(HistBins, (15 :> "V")), 0),
     Image("", 0, 0, ZerosBut(HistBins, (15 :> "8")), 0),
     Image("", 0, 0, ZerosBut(HistBins, <<>>), 0),
     Image("", 0, 0, ZerosBut(HistBins, <<"z">>), 0),
     Image("", 0, 0, ZerosBut(5, <<>>), 0)}

ResponseTimeChecks ==
    {ResponseTime(0, 0), ResponseTime(2, 0), ResponseTime(0, 2),
     ResponseTime(0, 1), ResponseTime(1, 2), ResponseTime(2, 1)}

Checks == ImageChecks \cup ResponseTimeChecks

\* The distances of the histograms that the checks and the responses
\* above bring together, computed once.
Distances ==
    [p \in {<<ColorHistFromString(c.Fingerprint).hash, r.Image.hist>> :
               c \in {i \in ImageChecks :
                         IsNil(ColorHistFromString(i.Fingerprint).err)},
               r \in {q \in Responses : q.Image.decodes}} |->
        l1Norm(p[1], p[2])]

\* fingerprint.ColorHistDelta(h, g): h.l1Norm(g)
ColorHistDelta(h, g) ==
    IF <<h, g>> \in DOMAIN Distances THEN Distances[<<h, g>>]
    ELSE l1Norm(h, g)

\* The float64 of a threshold given in hundredths, which is the one
\* nearest to it, for the thresholds from 0 to 1.
Hundredths == [t \in 0..100 |-> F64Quo(Float64(t), Float64(100))]

\* d > c.Threshold for a threshold given in hundredths; no NaN is greater
\* than a number.
Exceeds(d, threshold) == ~d.nan /\ F64Less(Hundredths[threshold], d)

\* Image.Prepare
ImagePrepare(i) ==
    IF Len(i.Fingerprint) = 0 THEN Nil
    ELSE IF Len(i.Fingerprint) = 16
    THEN IF ~IsNil(BMVHashFromString(i.Fingerprint).err)
         THEN MalformedCheck(BMVHashFromString(i.Fingerprint).err)
         ELSE Nil
    ELSE IF Len(i.Fingerprint) = 24
    THEN IF ~IsNil(ColorHistFromString(i.Fingerprint).err)
         THEN MalformedCheck(ColorHistFromString(i.Fingerprint).err)
         ELSE Nil
    ELSE Errorf("ht: image fingerprint has illegal length %d",
                Len(i.Fingerprint))

\* Image.Execute on the response r, whose body decodes to r.Image unless
\* it is no image. targetBMV and targetCH are the results of the parsers,
\* computed once.
ImageExecute(c, r) ==
    IF ~r.Image.decodes THEN CantCheck(ParseError)
    ELSE IF c.Format # "" /\ r.Image.format # c.Format
    THEN Errorf("Got %s image, want %s", 0)
    ELSE IF c.Width > 0 /\ c.Width # r.Image.dx
    THEN Errorf("Got %d px wide image, want %d", r.Image.dx)
    ELSE IF c.Height > 0 /\ c.Height # r.Image.dy
    THEN Errorf("Got %d px heigh image, want %d", r.Image.dy)
    ELSE IF Len(c.Fingerprint) = 16
    THEN CHOOSE e \in
            {IF ~IsNil(targetBMV.err)
             THEN CantCheck(Errorf("bad BMV hash: %s", 0))
             ELSE IF Exceeds(BMVDelta(targetBMV.hash, r.Image.bmv),
                             c.Threshold)
             THEN Errorf("Got BMV of %s, want %s (delta=%.4f)", 0)
             ELSE Nil :
                targetBMV \in {BMVHashFromString(c.Fingerprint)}} : TRUE
    ELSE IF Len(c.Fingerprint) = 24
    THEN CHOOSE e \in
            {IF ~IsNil(targetCH.err)
             THEN CantCheck(Errorf("bad ColorHist hash: %s", 0))
             ELSE IF Exceeds(ColorHistDelta(targetCH.hash, r.Image.hist),
                             c.Threshold)
             THEN Errorf("Got ColorHist of %s, want %s (delta=%.4f)", 0)
             ELSE Nil :
                targetCH \in {ColorHistFromString(c.Fingerprint)}} : TRUE
    ELSE Nil

\* ResponseTime.Prepare
ResponseTimePrepare(c) == Nil

\* ResponseTime.Execute on the response r.
ResponseTimeExecute(c, r) ==
    LET actual == r.Duration IN
    IF c.Higher # 0 /\ c.Lower # 0 /\ c.Higher >= c.Lower
    THEN MalformedCheck(Errorf("%d<RT<%d unfullfillable", c.Higher))
    ELSE IF c.Lower > 0 /\ c.Lower < actual
    THEN Errorf("Response took %s (allowed max %s).", actual)
    ELSE IF c.Higher > 0 /\ c.Higher > actual
    THEN Errorf("Response took %s (required min %s).", actual)
    ELSE Nil

\* The dispatch of Prepare and Execute over the kind of the check.
Prepare(c) ==
    IF c.Check = "Image" THEN ImagePrepare(c) ELSE ResponseTimePrepare(c)

Execute(c, r) ==
    IF c.Check = "Image" THEN ImageExecute(c, r) ELSE ResponseTimeExecute(c, r)

\* ------------------------------------------------------------------------
\* The run of one test (Test.Run)

\* A test that has not run.
TestWith(checks, pollMax) ==
    [Checks |-> checks, PollMax |-> pollMax, Status |-> NotRun, Tries |-> 0,
     Requests |-> 0, Prepared |-> <<>>, CheckResults |-> <<>>]

\* The status of the CheckResult of a check whose Execute returned err.
CheckStatus(err) ==
    IF IsNil(err) THEN Pass
    ELSE IF err.kind = "MalformedCheck" THEN Bogus
    ELSE IF err.kind = "CantCheck" THEN Error
    ELSE Fail

\* The errors of the Prepare of all checks.
PrepareChecks(checks) == [j \in 1..Len(checks) |-> Prepare(checks[j])]

\* Mutant: only a MalformedCheck error counts as a failed Prepare.
PrepareFailedMalformedOnly(errs) ==
    \E j \in 1..Len(errs) : errs[j].kind = "MalformedCheck"

\* The Prepare of some check failed.
PrepareFailed(errs) == \E j \in 1..Len(errs) : ~IsNil(errs[j])

\* Mutant: the checks after a check that did not pass are not executed.
RECURSIVE ExecuteChecksAbort(_, _, _, _)
ExecuteChecksAbort(checks, r, j, results) ==
    IF j > Len(checks) THEN results
    ELSE LET err == Execute(checks[j], r)
             cr == [Check |-> j, Status |-> CheckStatus(err), Error |-> err]
         IN IF IsNil(err)
            THEN ExecuteChecksAbort(checks, r, j + 1, Append(results, cr))
            ELSE Append(results, cr)

\* The execution of the checks from position j on against the response r:
\* one CheckResult per check.
RECURSIVE ExecuteChecksFrom(_, _, _, _)
ExecuteChecksFrom(checks, r, j, results) ==
    IF j > Len(checks) THEN results
    ELSE ExecuteChecksFrom(checks, r, j + 1,
             Append(results,
                    CHOOSE cr \in {[Check |-> j, Status |-> CheckStatus(err),
                                    Error |-> err] :
                                      err \in {Execute(checks[j], r)}} : TRUE))

\* The status of a test from the results of its checks: Pass, or the
\* worst status among them.
RECURSIVE WorstStatus(_, _, _)
WorstStatus(results, j, status) ==
    IF j > Len(results) THEN status
    ELSE WorstStatus(results, j + 1,
                     IF results[j].Status > status THEN results[j].Status
                     ELSE status)

\* The number of tries a test may take.
MaxTries(t) == IF t.PollMax = 0 THEN 1 ELSE t.PollMax

\* Mutant: one try more than configured.
ShouldRetryOnceMore(t) == t.Status # Pass /\ t.Tries <= MaxTries(t)

\* The test is tried again.
ShouldRetry(t) == t.Status # Pass /\ t.Tries < MaxTries(t)

TestInit ==
    /\ test \in {TestWith(cs, p) : cs \in SeqsUpTo(Checks, MaxChecks),
                                   p \in -1..MaxPoll}
    /\ testPc = "new"
    /\ response = NoResponse
    /\ call = <<>>
    /\ ret = <<>>
    /\ BoolIdle
    /\ ExecIdle
    /\ LoadIdle

\* Run is entered: a test with negative Poll.Max is skipped.
RunStart ==
    /\ testPc = "new"
    /\ IF test.PollMax < 0
       THEN /\ test' = [test EXCEPT !.Status = Skipped]
            /\ testPc' = "done"
       ELSE /\ test' = [test EXCEPT !.Tries = 1]
            /\ testPc' = "prepare"
    /\ UNCHANGED <<response, callVars>>
    /\ UNCHANGED <<boolVars, execVars, loadVars>>

\* The checks are prepared; the test is Bogus if a Prepare fails.
RunPrepare ==
    /\ testPc = "prepare"
    /\ LET errs == PrepareChecks(test.Checks) IN
       IF PrepareFailed(errs)
       THEN /\ test' = [test EXCEPT !.Prepared = errs, !.Status = Bogus,
                                    !.CheckResults = <<>>]
            /\ testPc' = "done"
       ELSE /\ test' = [test EXCEPT !.Prepared = errs]
            /\ testPc' = "request"
    /\ response' = NoResponse
    /\ UNCHANGED callVars
    /\ UNCHANGED <<boolVars, execVars, loadVars>>

\* The request is sent: without response the test is Error.
RunRequest ==
    /\ testPc = "request"
    /\ \E r \in Responses :
          /\ response' = r
          /\ IF r.ok
             THEN /\ test' = [test EXCEPT !.Requests = @ + 1]
                  /\ testPc' = "check"
             ELSE /\ test' = [test EXCEPT !.Requests = @ + 1,
                                          !.Status = Error,
                                          !.CheckResults = <<>>]
                  /\ testPc' = "poll"
    /\ UNCHANGED callVars
    /\ UNCHANGED <<boolVars, execVars, loadVars>>

\* The checks are executed against the response.
RunChecks ==
    /\ testPc = "check"
    /\ \E results \in {ExecuteChecksFrom(test.Checks, response, 1, <<>>)} :
          test' = [test EXCEPT !.CheckResults = results,
                               !.Status = WorstStatus(results, 1, Pass)]
    /\ testPc' = "poll"
    /\ UNCHANGED <<response, callVars>>
    /\ UNCHANGED <<boolVars, execVars, loadVars>>

\* The attempt is over: the test is tried again or Run returns.
RunPoll ==
    /\ testPc = "poll"
    /\ IF ShouldRetry(test)
       THEN /\ test' = [test EXCEPT !.Tries = @ + 1]
            /\ testPc' = "prepare"
       ELSE /\ test' = test
            /\ testPc' = "done"
    /\ UNCHANGED <<response, callVars>>
    /\ UNCHANGED <<boolVars, execVars, loadVars>>

TestNext ==
    \/ RunStart
    \/ RunPrepare
    \/ RunRequest
    \/ RunChecks
    \/ RunPoll

SpecTest == TestInit /\ [][TestNext]_vars

\* The checks of the tests whose run is followed to its end: checks that
\* pass on every response, on some and on none, and checks whose Prepare
\* fails.
PollChecks ==
    {Image("", 0, 0, <<>>, 0),
     Image("", 0, 0, ZerosBut(HistBins, (15 :> "v")), 0),
     Image("", 0, 0, ZerosBut(HistBins, <<"z">>), 0),
     ResponseTime(2, 0), ResponseTime(0, 2), ResponseTime(1, 2)}

TestFairInit ==
    /\ test \in {TestWith(cs, p) : cs \in SeqsUpTo(PollChecks, MaxChecks),
                                   p \in -1..MaxPoll}
    /\ testPc = "new"
    /\ response = NoResponse
    /\ call = <<>>
    /\ ret = <<>>
    /\ BoolIdle
    /\ ExecIdle
    /\ LoadIdle

\* Run goes on as long as it can.
SpecTestFair == TestFairInit /\ [][TestNext]_vars /\ WF_vars(TestNext)

\* ------------------------------------------------------------------------
\* Properties of the run of one test

\* The positions of the checks of the test.
CheckPositions == 1..Len(test.Checks)

\* Run has called Prepare and the Prepare of check j failed.
PrepareFailedAt(j) ==
    /\ test.Tries >= 1
    /\ testPc # "prepare"
    /\ ~IsNil(Prepare(test.Checks[j]))

\* C11: if the Prepare of a check of the test fails, the test ends Bogus
\* and no request is sent for it: a request is sent only after the Prepare
\* of every check has succeeded.
C11_BogusBeforeRequest ==
    /\ (\E j \in CheckPositions : PrepareFailedAt(j)) =>
           /\ test.Status = Bogus
           /\ test.Requests = 0
           /\ testPc = "done"
    /\ (test.Requests > 0 \/ testPc = "request") =>
           /\ Len(test.Prepared) = Len(test.Checks)
           /\ \A j \in CheckPositions :
                 IsNil(test.Prepared[j]) /\ IsNil(Prepare(test.Checks[j]))

\* A test whose second check is an Image check with a fingerprint of
\* illegal length has ended Bogus without request.
C11_Witness ==
    /\ testPc = "done"
    /\ Len(test.Checks) = 2
    /\ Len(test.Prepared) = 2
    /\ IsNil(test.Prepared[1])
    /\ test.Checks[2].Check = "Image"
    /\ test.Prepared[2].kind = "ht: image fingerprint has illegal length %d"
    /\ test.Status = Bogus
    /\ test.Requests = 0

\* A ResponseTime check with both bounds and Higher >= Lower.
Unsatisfiable(c) ==
    /\ c.Check = "ResponseTime"
    /\ c.Lower # 0 /\ c.Higher # 0
    /\ c.Higher >= c.Lower

\* C12: a ResponseTime check with both bounds and Higher >= Lower is
\* rejected by Prepare with a malformed-check error, so that no request is
\* made for its test and its Execute never reports the range.
C12_RejectedAtPrepare ==
    \A j \in CheckPositions :
        (Unsatisfiable(test.Checks[j]) /\ Len(test.Prepared) >= j) =>
            /\ test.Prepared[j].kind = "MalformedCheck"
            /\ test.Requests = 0

\* The current attempt got a response and its checks are through.
Checked == response.ok /\ testPc \in {"poll", "done"}

\* C13: on a response every check is executed once, in order and whatever
\* the checks before it returned, with one CheckResult each, and the test
\* is Pass if and only if every CheckResult is Pass.
C13_AllChecksExecuted ==
    Checked =>
        /\ Len(test.CheckResults) = Len(test.Checks)
        /\ \A j \in CheckPositions :
              /\ test.CheckResults[j].Check = j
              /\ test.CheckResults[j].Status
                     = CheckStatus(Execute(test.Checks[j], response))
        /\ test.Status = Pass <=>
              \A j \in CheckPositions : test.CheckResults[j].Status = Pass

\* The first check of a test failed and its second check was executed and
\* passed: the test is Fail.
C13_Witness ==
    /\ Checked
    /\ Len(test.Checks) = 2
    /\ test.CheckResults[1].Status = Fail
    /\ test.CheckResults[2].Status = Pass
    /\ test.Status = Fail

\* Run has returned.
Returned == testPc = "done"

\* A new try starts only while the test is not Pass and fewer than
\* Poll.Max tries were made.
RetryOnlyIfNeeded ==
    test'.Tries > test.Tries /\ test.Tries >= 1 =>
        /\ test.Status # Pass
        /\ test.Tries < test.PollMax

\* The number of tries is within the configured maximum; a test that
\* configures no polling (Poll.Max 0) is tried once and a disabled test
\* never.
TriesBounded ==
    /\ test.PollMax >= 1 => test.Tries <= test.PollMax
    /\ test.PollMax = 0 => test.Tries <= 1
    /\ test.PollMax < 0 => test.Tries = 0

\* C14: a test is tried again only while it is not Pass and fewer than
\* Poll.Max tries were made, so that the number of tries never exceeds the
\* configured maximum and no try follows one that passed, and Run returns.
C14_BoundedRetry ==
    /\ []TriesBounded
    /\ [][RetryOnlyIfNeeded]_vars
    /\ <>Returned

\* A test with Poll.Max 2 has returned Pass after its second try.
C14_Witness ==
    /\ Returned
    /\ test.PollMax = 2
    /\ test.Tries = 2
    /\ test.Requests = 2
    /\ test.Status = Pass

\* ------------------------------------------------------------------------
\* The execution of one suite (Suite.Execute)

\* n tests of a group.
GroupOf(group, n) == [k \in 1..n |-> NewTest(group, 0, 0)]

\* The suites with up to GroupTests tests in each group.
GroupedSuites ==
    {GroupOf("Setup", a) \o GroupOf("Tests", b) \o GroupOf("Teardown", c) :
        a \in 0..GroupTests, b \in 0..GroupTests, c \in 0..GroupTests}

SuiteInit ==
    /\ onlyFlag = {}
    /\ skipFlag = {}
    /\ loadPc = "loaded"
    /\ runS = 1
    /\ runK = 1
    /\ serialFlag = TRUE
    /\ suites \in {<<suite>> : suite \in GroupedSuites}
    /\ mainPc = "idle"
    /\ loopI = 0
    /\ wg = 0
    /\ taskPc = <<>>
    /\ taskK = <<>>
    /\ taskSeen = <<>>
    /\ executions = <<>>
    /\ Random = NewRand("init")
    /\ totals = NoTotals
    /\ exitCode = Unset
    /\ saved = <<>>
    /\ suiteStatus = <<Unset>>
    /\ server = Unset
    /\ BoolIdle
    /\ UnitIdle

\* Suite.Execute is at its next test; each request is answered on its own.
SuiteTestStep ==
    /\ loadPc = "loaded"
    /\ runS <= Len(suites)
    /\ runK <= Len(suites[runS])
    /\ \E outcome \in RunOutcomes :
          suites' = [suites EXCEPT ![runS] = SuiteExecuteTest(@, runK, outcome)]
    /\ runK' = runK + 1
    /\ UNCHANGED <<onlyFlag, skipFlag, loadPc, runS>>
    /\ UNCHANGED <<serialFlag, mainPc, loopI, wg, taskPc, taskK, taskSeen,
                   executions, Random, totals, exitCode, saved, suiteStatus, server>>
    /\ UNCHANGED boolVars
    /\ UNCHANGED unitVars

\* The status of the suite is rolled up from its tests.
SuiteStatusStep ==
    /\ loadPc = "ran"
    /\ suiteStatus[1] = Unset
    /\ suiteStatus' = [suiteStatus EXCEPT
                          ![1] = CombineTests([TestResults |-> suites[1]])]
    /\ UNCHANGED <<serialFlag, suites, mainPc, loopI, wg, taskPc, taskK,
                   taskSeen, executions, Random, totals, exitCode, saved, server>>
    /\ UNCHANGED <<boolVars, loadVars>>
    /\ UNCHANGED unitVars

SuiteNext ==
    \/ SuiteTestStep
    \/ LoadedSuiteDone
    \/ SuiteStatusStep

SpecSuite == SuiteInit /\ [][SuiteNext]_vars

\* ------------------------------------------------------------------------
\* Properties of the execution of one suite

\* The positions of the tests of a group of the suite.
InGroup(group) == {k \in 1..Len(suites[1]) : suites[1][k].Group = group}

\* A failing Setup test causes no Main test to be executed, and the
\* Teardown tests have been run when Execute is through.
MainSkippedTeardownRun ==
    /\ SetupFailed(suites[1]) =>
          \A k \in InGroup("Tests") :
              suites[1][k].Status = NotRun /\ suites[1][k].Requests = 0
    /\ loadPc = "ran" =>
          \A k \in InGroup("Teardown") : suites[1][k].Status \in RunOutcomes

\* The single Setup test of the suite ended in Error and the status of the
\* suite is rolled up.
SingleSetupError ==
    /\ Cardinality(InGroup("Setup")) = 1
    /\ \A k \in InGroup("Setup") : suites[1][k].Status = Error
    /\ suiteStatus[1] # Unset

\* A Teardown test of the suite ended in Bogus.
TeardownBogus == \E k \in InGroup("Teardown") : suites[1][k].Status = Bogus

\* C15 as stated: a failing Setup test causes no Main test to be executed
\* while the Teardown tests are still run and recorded, and a suite whose
\* single Setup test ends in Error has status Error.
C15_Original ==
    /\ MainSkippedTeardownRun
    /\ SingleSetupError => suiteStatus[1] = Error

\* C15 amended: a failing Setup test causes no Main test to be executed
\* while the Teardown tests are still run and recorded, and a suite whose
\* single Setup test ends in Error has status Error unless a Teardown
\* test, which runs after the failed Setup test, ends in Bogus, the one
\* status above Error: the status of the suite is then Bogus.
C15_SetupFailureSkipsMain ==
    /\ MainSkippedTeardownRun
    /\ SingleSetupError =>
          /\ ~TeardownBogus => suiteStatus[1] = Error
          /\ TeardownBogus => suiteStatus[1] = Bogus

\* The single Setup test ended in Error, the Main test was not run, the
\* Teardown test passed and the suite is Error.
C15_Witness ==
    /\ SingleSetupError
    /\ \E k \in InGroup("Tests") : suites[1][k].Status = NotRun
    /\ \E k \in InGroup("Teardown") : suites[1][k].Status = Pass
    /\ suiteStatus[1] = Error

\* ------------------------------------------------------------------------
\* Condition (Condition.Fulfilled)

\* Strings are sequences of characters; the characters of the strings a
\* Condition is applied to.
Chars == {"a", "1"}

Strings == SeqsUpTo(Chars, MaxStr)

\* No call, and what a call has not returned yet.
NoRet == [op |-> "none"]

\* strings.HasPrefix and strings.HasSuffix
HasPrefix(s, prefix) ==
    Len(s) >= Len(prefix) /\ SubSeq(s, 1, Len(prefix)) = prefix

HasSuffix(s, suffix) ==
    Len(s) >= Len(suffix)
    /\ SubSeq(s, Len(s) - Len(suffix) + 1, Len(s)) = suffix

\* strings.Count(s, sep) for a non-empty sep: the number of occurrences of
\* sep in s from position i on that do not overlap.
RECURSIVE CountFrom(_, _, _)
CountFrom(s, sep, i) ==
    IF i + Len(sep) - 1 > Len(s) THEN 0
    ELSE IF SubSeq(s, i, i + Len(sep) - 1) = sep
    THEN 1 + CountFrom(s, sep, i + Len(sep))
    ELSE CountFrom(s, sep, i + 1)

\* A regular expression is a sequence of character classes; it matches s
\* at position i.
MatchesAt(re, s, i) ==
    /\ i + Len(re) - 1 <= Len(s)
    /\ \A j \in 1..Len(re) : s[i + j - 1] \in re[j]

\* len(re.FindAllString(s, -1)): the number of matches of re in s from
\* position i on, leftmost first and not overlapping.
RECURSIVE FindAllFrom(_, _, _)
FindAllFrom(re, s, i) ==
    IF i + Len(re) - 1 > Len(s) THEN 0
    ELSE IF MatchesAt(re, s, i) THEN 1 + FindAllFrom(re, s, i + Len(re))
    ELSE FindAllFrom(re, s, i + 1)

\* strings.Trim(s, cutset)
RECURSIVE Trim(_, _)
Trim(s, cutset) ==
    IF Len(s) > 0 /\ s[1] \in cutset THEN Trim(Tail(s), cutset)
    ELSE IF Len(s) > 0 /\ s[Len(s)] \in cutset
    THEN Trim(SubSeq(s, 1, Len(s) - 1), cutset)
    ELSE s

\* The white space and the quotes that are cut off a string before it is
\* parsed as a number.
SpaceAndQuotes == {" ", "\t", "\n", "\r", "'", "\""}

\* A decimal number: m * 10^e, negative if neg.
Decimal(neg, m, e) == [neg |-> neg, m |-> m, e |-> e]

\* The number of an integer such as a bound.
FromInt(n) == IF n < 0 THEN Decimal(TRUE, 0 - n, 0) ELSE Decimal(FALSE, n, 0)

\* The position after the decimal digits of s from position i on.
RECURSIVE ScanDigits(_, _)
ScanDigits(s, i) ==
    IF i <= Len(s) /\ ParseUint(s[i], 10) >= 0 THEN ScanDigits(s, i + 1)
    ELSE i

\* The number of the decimal digits s[i] .. s[j - 1], after acc.
RECURSIVE DigitsValue(_, _, _, _)
DigitsValue(s, i, j, acc) ==
    IF i >= j THEN acc
    ELSE DigitsValue(s, i + 1, j, 10 * acc + ParseUint(s[i], 10))

\* strconv.ParseFloat(s, 64) for a string of digits, signs, points,
\* letters and white space that has no infinity, NaN or hexadecimal form
\* and an exponent of few digits: a sign, digits with or without a point,
\* and an exponent with its sign. The value is kept as the decimal number
\* it is.
ParseFloat(s) ==
    LET signed == Len(s) >= 1 /\ s[1] \in {"+", "-"}
        i0 == IF signed THEN 2 ELSE 1
        i1 == ScanDigits(s, i0)
        point == i1 <= Len(s) /\ s[i1] = "."
        i2 == IF point THEN ScanDigits(s, i1 + 1) ELSE i1
        nfrac == IF point THEN i2 - i1 - 1 ELSE 0
        hasExp == i2 <= Len(s) /\ s[i2] \in {"e", "E"}
        esigned == hasExp /\ i2 + 1 <= Len(s) /\ s[i2 + 1] \in {"+", "-"}
        i3 == IF esigned THEN i2 + 2 ELSE i2 + 1
        i4 == IF hasExp THEN ScanDigits(s, i3) ELSE i2
        exp == IF ~hasExp THEN 0
               ELSE IF esigned /\ s[i2 + 1] = "-"
               THEN 0 - DigitsValue(s, i3, i4, 0)
               ELSE DigitsValue(s, i3, i4, 0)
        mant == DigitsValue(s, i1 + 1, i2, DigitsValue(s, i0, i1, 0))
    IN  IF /\ (i1 - i0) + nfrac > 0
           /\ hasExp => i4 > i3
           /\ i4 = Len(s) + 1
        THEN [v |-> Decimal(signed /\ s[1] = "-", mant, exp - nfrac),
              err |-> Nil]
        ELSE [v |-> Decimal(FALSE, 0, 0),
              err |-> Errorf("strconv.ParseFloat: parsing %q: invalid syntax",
                             0)]

\* The number of decimal digits of m > 0.
RECURSIVE NumDigits(_)
NumDigits(m) == IF m < 10 THEN 1 ELSE 1 + NumDigits(m \div 10)

\* a < b for numbers that are not negative.
LessAbs(a, b) ==
    IF b.m = 0 THEN FALSE
    ELSE IF a.m = 0 THEN TRUE
    ELSE IF NumDigits(a.m) + a.e # NumDigits(b.m) + b.e
    THEN NumDigits(a.m) + a.e < NumDigits(b.m) + b.e
    ELSE IF a.e >= b.e THEN a.m * 10^(a.e - b.e) < b.m
    ELSE a.m < b.m * 10^(b.e - a.e)

\* a < b
Less(a, b) ==
    IF a.neg /\ a.m # 0
    THEN IF b.neg /\ b.m # 0 THEN LessAbs(b, a) ELSE TRUE
    ELSE IF b.neg /\ b.m # 0 THEN FALSE
    ELSE LessAbs(a, b)

\* The number the string s is tested as under GreaterThan and LessThan.
Number(s) == ParseFloat(Trim(s, SpaceAndQuotes))
IsNumber(s) == IsNil(Number(s).err)

\* A missing bound (a nil *float64).
NoBound == -1

\* A Condition.
Condition(equals, prefix, suffix, contains, regexp, count, min, max, gt, lt) ==
    [Equals |-> equals, Prefix |-> prefix, Suffix |-> suffix,
     Contains |-> contains, Regexp |-> regexp, Count |-> count,
     Min |-> min, Max |-> max, GreaterThan |-> gt, LessThan |-> lt]

\* Mutant: a positive Count is a lower bound of the occurrences.
CountErrorAtLeast(count, k) ==
    IF count = 0 /\ k = 0 THEN Errorf("not found", 0)
    ELSE IF count < 0 /\ k > 0 THEN Errorf("found forbidden", 0)
    ELSE IF count > 0 /\ k < count THEN Errorf("found %d, want %d", k)
    ELSE Nil

\* The verdict on k occurrences under Count.
CountError(count, k) ==
    IF count = 0 /\ k = 0 THEN Errorf("not found", 0)
    ELSE IF count < 0 /\ k > 0 THEN Errorf("found forbidden", 0)
    ELSE IF count > 0 /\ k # count THEN Errorf("found %d, want %d", k)
    ELSE Nil

\* The first of the errors es that is not nil.
RECURSIVE FirstError(_)
FirstError(es) ==
    IF Len(es) = 0 THEN Nil
    ELSE IF ~IsNil(Head(es)) THEN Head(es)
    ELSE FirstError(Tail(es))

\* The predicates of a Condition other than Equals, in the order Fulfilled
\* checks them.
PredicateErrors(c, s) ==
    << IF c.Prefix # <<>> /\ ~HasPrefix(s, c.Prefix)
       THEN Errorf("Bad prefix, got %q", 0) ELSE Nil,
       IF c.Suffix # <<>> /\ ~HasSuffix(s, c.Suffix)
       THEN Errorf("Bad suffix, got %q", 0) ELSE Nil,
       IF c.Contains # <<>>
       THEN CountError(c.Count, CountFrom(s, c.Contains, 1)) ELSE Nil,
       IF c.Regexp # <<>>
       THEN CountError(c.Count, FindAllFrom(c.Regexp, s, 1)) ELSE Nil,
       IF c.Min > 0 /\ Len(s) < c.Min
       THEN Errorf("Too short, was %d", Len(s)) ELSE Nil,
       IF c.Max > 0 /\ Len(s) > c.Max
       THEN Errorf("Too long, was %d", Len(s)) ELSE Nil,
       IF (c.GreaterThan # NoBound \/ c.LessThan # NoBound) /\ ~IsNumber(s)
       THEN Number(s).err
       ELSE Nil,
       IF c.GreaterThan # NoBound /\ IsNumber(s)
          /\ ~Less(FromInt(c.GreaterThan), Number(s).v)
       THEN Errorf("not greater than %g, was %g", Number(s).v) ELSE Nil,
       IF c.LessThan # NoBound /\ IsNumber(s)
          /\ ~Less(Number(s).v, FromInt(c.LessThan))
       THEN Errorf("not less than %g, was %g", Number(s).v) ELSE Nil >>

\* Mutant: the length bounds are checked also when Equals is set.
FulfilledEqualsAndLength(c, s) ==
    IF c.Equals # <<>>
    THEN IF s # c.Equals THEN Errorf("Unequal, was %q", 0)
         ELSE FirstError(SubSeq(PredicateErrors(c, s), 5, 6))
    ELSE FirstError(PredicateErrors(c, s))

\* c.Fulfilled(s)
Fulfilled(c, s) ==
    IF c.Equals # <<>>
    THEN IF s = c.Equals THEN Nil ELSE Errorf("Unequal, was %q", 0)
    ELSE FirstError(PredicateErrors(c, s))

\* The Conditions of the model.
Conditions ==
    {Condition(e, p, sf, ct, re, n, mn, mx, gt, lt) :
        e \in {<<>>, <<"a">>, <<"a", "1">>},
        p \in {<<>>, <<"a">>},
        sf \in {<<>>, <<"1">>},
        ct \in {<<>>, <<"a">>, <<"a", "a">>},
        re \in {<<>>, <<{"a", "1"}, {"1"}>>},
        n \in -1..2,
        mn \in {0, 2},
        mx \in {0, 2},
        gt \in {NoBound, 1},
        lt \in {NoBound, 11}}

\* Strings with a number in them and strings that only look like one:
\* with white space and quotes around the number, with a sign, a fraction
\* and an exponent.
NumberStrings ==
    {<<"3">>, <<" ", "\t", "3", "\n", "\r">>, <<"'", "3", "'">>,
     <<"8", "0", "0">>, <<"'", "-", "8", ".", "8", "e", "1", "'">>,
     <<"+", "5">>, <<".", "5">>, <<"1", ".">>, <<"1", "2", "e", "-", "1">>,
     <<"\"", "1", "1", "0", "E", "-", "1", "\"">>,
     <<"1", "e">>, <<".">>, <<"-">>, <<"1", " ", "1">>}

CondInit ==
    /\ call \in {[fn |-> "Fulfilled", c |-> c, s |-> s] :
                    c \in Conditions, s \in Strings \cup NumberStrings}
    /\ ret = NoRet
    /\ test = <<>>
    /\ testPc = "idle"
    /\ response = <<>>
    /\ BoolIdle
    /\ ExecIdle
    /\ LoadIdle

FulfilledStep ==
    /\ call.fn = "Fulfilled"
    /\ ret = NoRet
    /\ ret' = [op |-> "Fulfilled", err |-> Fulfilled(call.c, call.s)]
    /\ UNCHANGED <<call, testVars>>
    /\ UNCHANGED <<boolVars, execVars, loadVars>>

CondNext == FulfilledStep

SpecCond == CondInit /\ [][CondNext]_vars

\* ------------------------------------------------------------------------
\* Properties of Condition

\* Fulfilled has returned, and it returned nil.
FulfilledReturned == ret # NoRet /\ ret.op = "Fulfilled"
Succeeds == IsNil(ret.err)

\* C16: for a Condition with Equals set, Fulfilled(s) succeeds if and only
\* if s equals Equals, whatever the other fields are.
C16_EqualsOnly ==
    (FulfilledReturned /\ call.c.Equals # <<>>) =>
        (Succeeds <=> call.s = call.c.Equals)

\* Fulfilled("a") of a Condition with Equals "a", a Min above the length of
\* "a" and all other fields set has succeeded.
C16_Witness ==
    /\ FulfilledReturned
    /\ call.c.Equals = <<"a">> /\ call.s = <<"a">>
    /\ call.c.Min > Len(call.s)
    /\ call.c.Prefix # <<>> /\ call.c.Suffix # <<>>
    /\ call.c.Contains # <<>> /\ call.c.Regexp # <<>>
    /\ call.c.Count < 0
    /\ call.c.GreaterThan # NoBound /\ call.c.LessThan # NoBound
    /\ Succeeds

\* The rule of Count for k occurrences.
CountRule(count, k) ==
    \/ count = 0 /\ k >= 1
    \/ count > 0 /\ k = count
    \/ count < 0 /\ k = 0

\* The occurrences of Contains and the matches of Regexp in the string.
ContainsK == CountFrom(call.s, call.c.Contains, 1)
RegexpK == FindAllFrom(call.c.Regexp, call.s, 1)

\* The predicates on the occurrences that are set hold.
OccurrencesHold ==
    /\ call.c.Contains # <<>> => CountRule(call.c.Count, ContainsK)
    /\ call.c.Regexp # <<>> => CountRule(call.c.Count, RegexpK)

\* The other predicates that are set hold.
OthersHold ==
    /\ call.c.Prefix # <<>> => HasPrefix(call.s, call.c.Prefix)
    /\ call.c.Suffix # <<>> => HasSuffix(call.s, call.c.Suffix)
    /\ call.c.Min > 0 => Len(call.s) >= call.c.Min
    /\ call.c.Max > 0 => Len(call.s) <= call.c.Max
    /\ call.c.GreaterThan # NoBound =>
          IsNumber(call.s)
          /\ Less(FromInt(call.c.GreaterThan), Number(call.s).v)
    /\ call.c.LessThan # NoBound =>
          IsNumber(call.s) /\ Less(Number(call.s).v, FromInt(call.c.LessThan))

\* Contains or Regexp is set.
OccurrencesSet == call.c.Contains # <<>> \/ call.c.Regexp # <<>>

\* No field but Contains, Regexp and Count is set.
OnlyOccurrencesSet ==
    /\ OccurrencesSet
    /\ call.c.Equals = <<>> /\ call.c.Prefix = <<>> /\ call.c.Suffix = <<>>
    /\ call.c.Min = 0 /\ call.c.Max = 0
    /\ call.c.GreaterThan = NoBound /\ call.c.LessThan = NoBound

\* C17: for a Condition with Contains or Regexp set, the occurrences obey
\* Count if and only if there is at least one for Count 0, there are
\* exactly N for Count N > 0, and there is none for a negative Count:
\* Fulfilled succeeds if and only if they do and the other predicates that
\* are set hold, and the rule of Count alone decides if no other field is
\* set.
C17_CountRule ==
    /\ (FulfilledReturned /\ OccurrencesSet /\ call.c.Equals = <<>>) =>
           (Succeeds <=> (OccurrencesHold /\ OthersHold))
    /\ (FulfilledReturned /\ OnlyOccurrencesSet) =>
           (Succeeds <=> OccurrencesHold)

\* Fulfilled has failed for a string with one occurrence of Contains under
\* Count 2, no other field being set.
C17_Witness ==
    /\ FulfilledReturned
    /\ OnlyOccurrencesSet
    /\ call.c.Regexp = <<>>
    /\ call.c.Count = 2
    /\ ContainsK = 1
    /\ ret.err.kind = "found %d, want %d"

-----------------------------------------------------------------------------
\* Variables: Repeat, newReplacer, substituteVariables and mergeVariables.
\* Strings are sequences of characters, so that a name is taken apart and a
\* text is scanned as the code does it.

\* The names of the variables: two string variables and one integer one.
VarNames == {<<"T">>, <<"U">>, <<"#", "7">>}

\* The values of the variables.
VarValues == {<<"x">>, <<"1">>}

\* The values an integer variable is also given: signed integers.
SignedValues == {<<"-", "1">>, <<"+", "1">>}

\* The value of a decimal digit.
DigitValue ==
    ("0" :> 0) @@ ("1" :> 1) @@ ("2" :> 2) @@ ("3" :> 3) @@ ("4" :> 4) @@
    ("5" :> 5) @@ ("6" :> 6) @@ ("7" :> 7) @@ ("8" :> 8) @@ ("9" :> 9)

\* The digits of strconv.ParseInt(s, 10, 64) after its sign: the value of
\* s after acc, and the error for a character that is no digit.
RECURSIVE ParseIntFrom(_, _)
ParseIntFrom(s, acc) ==
    IF Len(s) = 0 THEN [n |-> acc, err |-> Nil]
    ELSE IF Head(s) \notin DOMAIN DigitValue
    THEN [n |-> 0, err |-> Errorf("strconv.ParseInt: invalid syntax", 0)]
    ELSE ParseIntFrom(Tail(s), 10 * acc + DigitValue[Head(s)])

\* strconv.ParseInt(s, 10, 64): an optional sign and digits; the error
\* for an empty string, a sign alone or a character that is no digit.
ParseInt(s) ==
    LET signed == Len(s) > 0 /\ Head(s) \in {"+", "-"}
        digits == IF signed THEN Tail(s) ELSE s
    IN  IF Len(digits) = 0 \/ ~IsNil(ParseIntFrom(digits, 0).err)
        THEN [n |-> 0, err |-> Errorf("strconv.ParseInt: invalid syntax", 0)]
        ELSE [n |-> IF Head(s) = "-" THEN 0 - ParseIntFrom(digits, 0).n
                    ELSE ParseIntFrom(digits, 0).n,
              err |-> Nil]

\* The map without a key.
EmptyMap == [k \in {} |-> <<>>]

\* All maps from some of the keys to the values.
Maps(keys, values) == UNION {[ks -> values] : ks \in SUBSET keys}

\* The text "{{k}}" that stands for variable k.
Placeholder(k) == <<"{", "{">> \o k \o <<"}", "}">>

\* The orders in which the iteration of a map with the keys ks can visit
\* them: Go fixes none.
Orders(ks) ==
    {o \in [1..Cardinality(ks) -> ks] : \A k \in ks : \E i \in DOMAIN o : o[i] = k}

\* The loop of newReplacer from the i-th key of the iteration on: an
\* integer variable, whose name or value may be no integer, sets fn at its
\* number, over what an earlier key of the same number has set; a string
\* variable appends its placeholder and its value to oldnew.
RECURSIVE newReplacerFrom(_, _, _, _, _)
newReplacerFrom(vs, order, i, oldnew, fn) ==
    IF i > Len(order) THEN [str |-> oldnew, fn |-> fn, err |-> Nil]
    ELSE IF HasPrefix(order[i], <<"#">>)
    THEN IF ~IsNil(ParseInt(Tail(order[i])).err)
         THEN [str |-> <<>>, fn |-> EmptyMap,
               err |-> ParseInt(Tail(order[i])).err]
         ELSE IF ~IsNil(ParseInt(vs[order[i]]).err)
         THEN [str |-> <<>>, fn |-> EmptyMap,
               err |-> ParseInt(vs[order[i]]).err]
         ELSE newReplacerFrom(vs, order, i + 1, oldnew,
                 (ParseInt(Tail(order[i])).n :> ParseInt(vs[order[i]]).n)
                 @@ fn)
    ELSE newReplacerFrom(vs, order, i + 1,
            oldnew \o <<Placeholder(order[i]), vs[order[i]]>>, fn)

\* newReplacer(vars) when the iteration of vars visits its keys in the
\* given order: the arguments str of strings.NewReplacer, the integer
\* substitutions fn, and the error.
newReplacer(vs, order) == newReplacerFrom(vs, order, 1, <<>>, EmptyMap)

\* The replacers that newReplacer(vars) can return.
newReplacers(vs) == {newReplacer(vs, o) : o \in Orders(DOMAIN vs)}

\* strings.NewReplacer(oldnew...).Replace(s): s is scanned from the left;
\* where old strings of oldnew begin, the one that comes first among the
\* arguments is replaced by its new string, and the replaced text is not
\* scanned again.
RECURSIVE Replace(_, _)
Replace(oldnew, s) ==
    IF Len(s) = 0 THEN <<>>
    ELSE LET js == {j \in 1..(Len(oldnew) \div 2) :
                        HasPrefix(s, oldnew[2 * j - 1])}
         IN  IF js = {} THEN <<Head(s)>> \o Replace(oldnew, Tail(s))
             ELSE LET j == CHOOSE i \in js : \A l \in js : i <= l
                  IN  oldnew[2 * j] \o
                      Replace(oldnew,
                              SubSeq(s, Len(oldnew[2 * j - 1]) + 1, Len(s)))

\* A test as far as variables touch it: the texts of its name, description
\* and URL, and the lines "Var k=v" that Repeat appends to the description,
\* kept as the set of their <<k, v>> because Go appends them in the order of
\* a map iteration.
Template(name, description, url) ==
    [Name |-> name, Description |-> description, URL |-> url, VarLines |-> {}]

\* t.substituteVariables(repl): a copy of t with the replacer applied.
substituteVariables(t, repl) ==
    [Name |-> Replace(repl.str, t.Name),
     Description |-> Replace(repl.str, t.Description),
     URL |-> Replace(repl.str, t.URL),
     VarLines |-> t.VarLines]

\* The index into a list of n values in repetition r.
\* Mutant: the last value is repeated once the list is used up.
CycleIndexClamped(r, n) == IF r < n THEN r ELSE n - 1

CycleIndex(r, n) == r % n

\* The outcome of Repeat: the tests, the error, whether it panicked, and
\* the test it was given.
Outcome(reps, err, panic, t) ==
    [reps |-> reps, err |-> err, panic |-> panic, test |-> t]

\* The loop of Repeat from repetition r on, as the set of the outcomes
\* it can have under the orders of the map iterations. The division by
\* the length of an empty list panics, newReplacer's error ends the loop
\* with no tests, and the test is only read.
RECURSIVE RepeatFrom(_, _, _, _, _)
RepeatFrom(t, count, vs, r, reps) ==
    IF r >= count THEN {Outcome(reps, Nil, FALSE, t)}
    ELSE IF \E k \in DOMAIN vs : Len(vs[k]) = 0
    THEN {Outcome(<<>>, Nil, TRUE, t)}
    ELSE LET curVars == [k \in DOMAIN vs |->
                            vs[k][CycleIndex(r, Len(vs[k])) + 1]]
             replacers == newReplacers(curVars)
         IN  {Outcome(<<>>, replacer.err, FALSE, t) :
                 replacer \in {rp \in replacers : ~IsNil(rp.err)}}
             \cup
             UNION {RepeatFrom(t, count, vs, r + 1,
                       Append(reps,
                          [rep EXCEPT !.VarLines =
                              @ \cup {<<k, curVars[k]>> : k \in DOMAIN vs}])) :
                      rep \in {substituteVariables(t, rp) :
                                  rp \in {q \in replacers : IsNil(q.err)}}}

\* Repeat(test, count, vars): the outcomes it can have. make([]*Test,
\* count) panics for a negative count.
Repeat(t, count, vs) ==
    IF count < 0 THEN {Outcome(<<>>, Nil, TRUE, t)}
    ELSE RepeatFrom(t, count, vs, 0, <<>>)

\* Mutant: a key that result has already keeps its value.
RECURSIVE FoldMapsFirstWins(_, _, _)
FoldMapsFirstWins(vs, i, result) ==
    IF i > Len(vs) THEN result
    ELSE FoldMapsFirstWins(vs, i + 1, result @@ vs[i])

\* The maps vars[i], vars[i + 1], ... copied into result one after the
\* other, every key of a map being set in result.
RECURSIVE FoldMaps(_, _, _)
FoldMaps(vs, i, result) ==
    IF i > Len(vs) THEN result
    ELSE FoldMaps(vs, i + 1, vs[i] @@ result)

\* mergeVariables(vars...): a map made anew, alias 0 saying that it shares
\* its storage with none of the arguments, into which the arguments are
\* copied in their order; the arguments are only read.
mergeVariables(vs) ==
    [result |-> FoldMaps(vs, 1, EmptyMap), alias |-> 0, vars |-> vs]

\* The tests that are repeated.
Templates ==
    {Template(Placeholder(<<"T">>), <<"d">>, <<"/">> \o Placeholder(<<"U">>)),
     Template(<<"n">>, Placeholder(<<"U">>) \o Placeholder(<<"T">>),
              <<"/">> \o Placeholder(<<"#", "7">>))}

\* The lists of at most MaxVals values.
ValueLists == UNION {[1..n -> VarValues] : n \in 0..MaxVals}

\* The lists of values of the integer variable: those of the other
\* variables, and lists that begin with a signed integer.
IntegerLists ==
    ValueLists \cup
    {<<v>> \o l : v \in SignedValues,
                  l \in UNION {[1..n -> VarValues] : n \in 0..(MaxVals - 1)}}

\* Variables that meet in a replacer: two integer variables of one
\* number, and two string variables of which the placeholder of the one
\* begins with the placeholder of the other.
ClashVars ==
    {(<<"#", "7">> :> a) @@ (<<"#", "0", "7">> :> b) :
        a \in VarValues, b \in SignedValues}
    \cup {(<<"U">> :> p[1]) @@ (<<"U", "}", "}", "{", "{", "T">> :> p[2]) :
             p \in {q \in VarValues \X VarValues : q[1] # q[2]}}

\* The value lists of the variables of a call of Repeat.
RepeatVars ==
    {strs @@ ints : strs \in Maps(VarNames \ {<<"#", "7">>}, ValueLists),
                    ints \in Maps({<<"#", "7">>}, IntegerLists)}
    \cup {[k \in DOMAIN vs |-> <<vs[k]>>] : vs \in ClashVars}

\* The sequences of at most MaxMaps maps.
MapLists == UNION {[1..n -> Maps(VarNames, VarValues)] : n \in 0..MaxMaps}

VarsInit ==
    /\ call \in
         {[fn |-> "Repeat", test |-> t, count |-> c, vars |-> vs] :
             t \in Templates, c \in -1..MaxCount,
             vs \in RepeatVars}
         \cup {[fn |-> "newReplacer", curVars |-> vs] :
                  vs \in ClashVars \cup Maps(VarNames, VarValues)}
         \cup {[fn |-> "mergeVariables", vars |-> ms] : ms \in MapLists}
         \cup {[fn |-> "main", Variables |-> sv, variablesFlag |-> vf] :
                  sv \in Maps(VarNames, VarValues),
                  vf \in Maps(VarNames, VarValues)}
    /\ ret = NoRet
    /\ test = <<>>
    /\ testPc = "idle"
    /\ response = <<>>
    /\ BoolIdle
    /\ ExecIdle
    /\ LoadIdle

\* A call of Repeat.
RepeatStep ==
    /\ call.fn = "Repeat"
    /\ ret = NoRet
    /\ \E out \in Repeat(call.test, call.count, call.vars) :
          /\ ret' = [op |-> "Repeat", reps |-> out.reps, err |-> out.err,
                     panic |-> out.panic]
          /\ call' = [call EXCEPT !.test = out.test]
    /\ UNCHANGED testVars
    /\ UNCHANGED <<boolVars, execVars, loadVars>>

\* A call of newReplacer, under one of the orders of its map iteration.
NewReplacerStep ==
    /\ call.fn = "newReplacer"
    /\ ret = NoRet
    /\ \E out \in newReplacers(call.curVars) :
          ret' = [op |-> "newReplacer", str |-> out.str, fn |-> out.fn,
                  err |-> out.err]
    /\ UNCHANGED <<call, testVars>>
    /\ UNCHANGED <<boolVars, execVars, loadVars>>

\* A call of mergeVariables.
MergeStep ==
    /\ call.fn = "mergeVariables"
    /\ ret = NoRet
    /\ LET out == mergeVariables(call.vars)
       IN  /\ ret' = [op |-> "mergeVariables", result |-> out.result,
                      alias |-> out.alias]
           /\ call' = [call EXCEPT !.vars = out.vars]
    /\ UNCHANGED testVars
    /\ UNCHANGED <<boolVars, execVars, loadVars>>

\* main sets every variable of the -D flag in the variables of the loaded
\* suite, in the map of the suite itself.
SetVariablesFlag ==
    /\ call.fn = "main"
    /\ ret = NoRet
    /\ ret' = [op |-> "main"]
    /\ call' = [call EXCEPT !.Variables = call.variablesFlag @@ call.Variables]
    /\ UNCHANGED testVars
    /\ UNCHANGED <<boolVars, execVars, loadVars>>

VarsNext == RepeatStep \/ NewReplacerStep \/ MergeStep \/ SetVariablesFlag

SpecVars == VarsInit /\ [][VarsNext]_vars

\* Repeat has returned, be it by a panic.
RepeatReturned == ret # NoRet /\ ret.op = "Repeat"

\* The value that repetition rep binds variable k to: the one of its line
\* "Var k=v".
BoundIn(rep, k) == {l[2] : l \in {m \in rep.VarLines : m[1] = k}}

\* The value of variable k in repetition n.
Cycled(k, n) == call.vars[k][(n % Len(call.vars[k])) + 1]

\* An integer variable meets a value that is no integer within the
\* repetitions asked for.
BadIntegerVariable ==
    \E k \in DOMAIN call.vars : \E n \in 0..(call.count - 1) :
        /\ HasPrefix(k, <<"#">>)
        /\ ~IsNil(ParseInt(Cycled(k, n)).err)

\* A repetition is asked for with a variable that has no value.
EmptyValueList ==
    call.count > 0 /\ \E k \in DOMAIN call.vars : Len(call.vars[k]) = 0

\* The string variables of the call.
StringVars == {k \in DOMAIN call.vars : ~HasPrefix(k, <<"#">>)}

\* The placeholders of the string variables and their values in
\* repetition n, in the order o of the variables.
RECURSIVE Substitutions(_, _, _)
Substitutions(o, n, i) ==
    IF i > Len(o) THEN <<>>
    ELSE <<Placeholder(o[i]), Cycled(o[i], n)>> \o Substitutions(o, n, i + 1)

\* The arguments of a call are after the call what they were before it.
ArgumentsKept == call' = call

\* Repeat has returned exactly count tests, of which the n-th (n from 0)
\* binds every variable v to vars[v][n mod len(vars[v])] and has the
\* placeholders of the string variables replaced by these values, so that
\* lists of equal length are cycled in lockstep; where two placeholders
\* begin at one place of a text, one of them is replaced.
Cycles ==
    /\ Len(ret.reps) = call.count
    /\ \A n \in 0..(call.count - 1) :
         LET rep == ret.reps[n + 1]
         IN  /\ \A k \in DOMAIN call.vars :
                   BoundIn(rep, k) = {Cycled(k, n)}
             /\ \A k \in VarNames \ DOMAIN call.vars :
                   BoundIn(rep, k) = {}
             /\ \E o \in Orders(StringVars) :
                   /\ rep.Name =
                         Replace(Substitutions(o, n, 1), call.test.Name)
                   /\ rep.URL =
                         Replace(Substitutions(o, n, 1), call.test.URL)
    /\ \A k1, k2 \in DOMAIN call.vars :
         Len(call.vars[k1]) = Len(call.vars[k2]) =>
           \A n \in 0..(call.count - 1) : \E i \in 1..Len(call.vars[k1]) :
               /\ BoundIn(ret.reps[n + 1], k1) = {call.vars[k1][i]}
               /\ BoundIn(ret.reps[n + 1], k2) = {call.vars[k2][i]}

\* Every call of Repeat returns its tests: it neither panics nor returns
\* an error, and the tests are count tests with the variables cycled.
AlwaysCycles ==
    RepeatReturned => (~ret.panic /\ IsNil(ret.err) /\ Cycles)

RepeatCycles ==
    RepeatReturned =>
      /\ ret.panic <=> (call.count < 0 \/ EmptyValueList)
      /\ ~IsNil(ret.err) <=> (~EmptyValueList /\ BadIntegerVariable)
      /\ ~IsNil(ret.err) => ret.reps = <<>>
      /\ (~ret.panic /\ IsNil(ret.err)) => Cycles

MergeReturned == ret # NoRet /\ ret.op = "mergeVariables"

\* The arguments of mergeVariables that have key k.
ArgsWith(k) == {i \in 1..Len(call.vars) : k \in DOMAIN call.vars[i]}

\* The greatest of a set of numbers that is not empty.
Last(S) == CHOOSE i \in S : \A j \in S : j <= i

\* main sets the variables of the -D flag in this step.
SettingFlag == call.fn = "main" /\ ret = NoRet /\ ret' # NoRet

\* After the step every variable of the flag has its value from the flag
\* in the variables of the suite, every other variable of the suite has the
\* value it had, and the flag is as before.
FlagWins ==
    SettingFlag =>
       /\ DOMAIN call'.Variables =
             DOMAIN call.Variables \cup DOMAIN call.variablesFlag
       /\ \A k \in DOMAIN call.variablesFlag :
             call'.Variables[k] = call.variablesFlag[k]
       /\ \A k \in DOMAIN call.Variables \ DOMAIN call.variablesFlag :
             call'.Variables[k] = call.Variables[k]
       /\ call'.variablesFlag = call.variablesFlag

\* mergeVariables has returned a new map with the keys of all its
\* arguments, in which every key has the value of the last argument that
\* has the key.
LastWins ==
    MergeReturned =>
       /\ ret.alias = 0
       /\ DOMAIN ret.result = UNION {DOMAIN call.vars[i] : i \in 1..Len(call.vars)}
       /\ \A k \in DOMAIN ret.result :
             ret.result[k] = call.vars[Last(ArgsWith(k))][k]

\* C19: mergeVariables returns a new map whose keys are the keys of all its
\* arguments, in which every key has the value of the last argument that
\* has the key, and the arguments are as before; and a variable of the -D
\* flag has its value from the flag in the variables of the suite, whatever
\* the suite's own value for it, all other variables of the suite keeping
\* theirs.
C19_LastWins ==
    /\ []LastWins
    /\ [][MergeStep => ArgumentsKept]_vars
    /\ [][FlagWins]_vars

\* Two maps that differ in the value of T are merged: the value of the
\* second one is the result's.
C19_Witness ==
    /\ MergeReturned
    /\ Len(call.vars) = 2
    /\ call.vars[1] = (<<"T">> :> <<"x">>) @@ (<<"U">> :> <<"x">>)
    /\ call.vars[2] = (<<"T">> :> <<"1">>)
    /\ ret.result = (<<"T">> :> <<"1">>) @@ (<<"U">> :> <<"x">>)

-----------------------------------------------------------------------------
\* Random values: setRandomVariable, parseRandomArgs, randomNumber and
\* randomText. A request "RANDOM <what> <args>" is the record of its <what>
\* and of what the regular expression of the random function makes of
\* <args>: whether it matches, and the submatches m.

\* The random functions: the name, the defaults of the arguments, where a
\* leading # marks a number, and the function, which IMAGE lacks.
randomFuncs ==
    << [name |-> "NUMBER",
        args |-> << <<>>, <<"#", "1">>, <<"#">>, <<>>, <<"%", "d">> >>,
        fn |-> "randomNumber"],
       [name |-> "TEXT",
        args |-> << <<>>, <<"f", "r">>, <<>>, <<"#", "4">>, <<"#">> >>,
        fn |-> "randomText"],
       [name |-> "IMAGE",
        args |-> << <<>>, <<"a", "n", "y">>, <<"#", "1", "8", "0">>,
                    <<"#", "1", "2", "0">> >>,
        fn |-> "nil"] >>

\* The languages of textCorpus.
textCorpus == {<<"f", "r">>, <<"d", "e">>, <<"e", "n">>, <<"t", "l", "h">>}

\* fmt.Sprintf(format, n), kept as the format and the number.
Sprintf(format, n) ==
    [kind |-> "number", format |-> format, n |-> n, words |-> <<>>]

\* strings.Join(ws, " ") for words ws of the corpus of a language, kept as
\* the words and their number.
Join(lang, ws) ==
    [kind |-> "text", format |-> lang, n |-> Len(ws), words |-> ws]

\* No value.
NoValue == [kind |-> "none", format |-> <<>>, n |-> 0, words |-> <<>>]

\* strings.Split(corpus, " ") for the corpus of a language: its words, of
\* which word i is the pair of the language and i.
CorpusOf(lang) == [i \in 1..CorpusWords |-> <<lang, i>>]

\* Random.Intn(span) where draw is the next number of the generator.
Intn(span, draw) == draw % span

\* randomNumber(args)
randomNumber(args, draw) ==
    LET from == args[2]
        to == args[3]
        format == args[5]
        span == to - from + 1
    IN  IF span > 0
        THEN [value |-> Sprintf(format, from + Intn(span, draw)), err |-> Nil,
              draws |-> 1]
        ELSE [value |-> NoValue, draws |-> 0,
              err |-> Errorf("ht: invalid range [%d,%d] for random number", 0)]

\* Mutant: past the last word the text goes on with the word it began
\* with.
RECURSIVE WrapFromBegin(_, _, _, _)
WrapFromBegin(words, begin, n, text) ==
    IF Len(text) >= n THEN SubSeq(text, 1, n)
    ELSE WrapFromBegin(words, begin, n,
                       text \o SubSeq(words, begin + 1, Len(words)))

\* The loop of randomText for a text that goes past the last word: the
\* words from begin on, then the words from the first one on, until there
\* are n.
RECURSIVE Wrap(_, _, _, _)
Wrap(words, begin, n, text) ==
    IF Len(text) >= n THEN SubSeq(text, 1, n)
    ELSE Wrap(words, 0, n, text \o SubSeq(words, begin + 1, Len(words)))

\* randomText(args): draw is the number of the generator for the length n
\* and draw2 the one for the word the text begins with.
randomText(args, draw, draw2) ==
    LET lang == args[2]
        min == args[4]
        max == args[5]
        span == max - min + 1
        n == min + Intn(span, draw)
        words == CorpusOf(lang)
        w == Len(words)
        begin == Intn(w - 1, draw2)
    IN  IF lang \notin textCorpus
        THEN [value |-> NoValue, draws |-> 0,
              err |-> Errorf("ht: no %s corpus of random text", 0)]
        ELSE IF span <= 0
        THEN [value |-> NoValue, draws |-> 0,
              err |-> Errorf("ht: invalid range [%d,%d] for random text", 0)]
        ELSE IF n = 0
        THEN [value |-> Join(lang, <<>>), err |-> Nil, draws |-> 1]
        ELSE IF begin + n <= w
        THEN [value |-> Join(lang, SubSeq(words, begin + 1, begin + n)),
              err |-> Nil, draws |-> 2]
        ELSE [value |-> Join(lang, Wrap(words, begin, n, <<>>)),
              err |-> Nil, draws |-> 2]

\* The argument at position i: the submatch or, if that is empty, the
\* default, and its number if the default is marked as one.
RandomArg(req, rf, i) ==
    LET number == HasPrefix(rf.args[i], <<"#">>)
        a == IF number THEN Tail(rf.args[i]) ELSE rf.args[i]
        m == IF req.m[i] = <<>> THEN a ELSE req.m[i]
    IN  IF number THEN ParseInt(m) ELSE [n |-> m, err |-> Nil]

\* parseRandomArgs(s, rf): the arguments, the error of arguments that the
\* regular expression does not match or of a number that does not parse,
\* and the panic of a regular expression with another number of submatches
\* than rf has arguments.
parseRandomArgs(req, rf) ==
    IF ~req.matched
    THEN [vals |-> <<>>, panic |-> FALSE,
          err |-> Errorf("ht: cannot parse argument %q to %s as %q", 0)]
    ELSE IF Len(req.m) # Len(rf.args)
    THEN [vals |-> <<>>, panic |-> TRUE, err |-> Nil]
    ELSE LET bad == {i \in 1..Len(rf.args) : ~IsNil(RandomArg(req, rf, i).err)}
         IN  IF bad # {}
             THEN [vals |-> <<>>, panic |-> FALSE,
                   err |-> Errorf("ht: argument %d to random %s: %s",
                                  CHOOSE i \in bad : \A j \in bad : i <= j)]
             ELSE [vals |-> [i \in 1..Len(rf.args) |-> RandomArg(req, rf, i).n],
                   panic |-> FALSE, err |-> Nil]

\* rf.fn(arglist); the call of the function that IMAGE lacks panics.
CallRandomFunc(rf, arglist, draw, draw2) ==
    IF rf.fn = "randomNumber"
    THEN [panic |-> FALSE] @@ randomNumber(arglist, draw)
    ELSE IF rf.fn = "randomText"
    THEN [panic |-> FALSE] @@ randomText(arglist, draw, draw2)
    ELSE [panic |-> TRUE, value |-> NoValue, err |-> Nil, draws |-> 0]

\* setRandomVariable(vars, r): the variables after the call, the error, and
\* the number of draws from Random.
setRandomVariable(vs, r, draw, draw2) ==
    IF r \in DOMAIN vs
    THEN [vars |-> vs, err |-> Nil, panic |-> FALSE, draws |-> 0]
    ELSE LET rfs == {i \in 1..Len(randomFuncs) : randomFuncs[i].name = r.what}
         IN  IF rfs = {}
             THEN [vars |-> vs, panic |-> FALSE, draws |-> 0,
                   err |-> Errorf("ht: no such random type %q", 0)]
             ELSE LET rf == randomFuncs[CHOOSE i \in rfs : \A j \in rfs : i <= j]
                      parsed == parseRandomArgs(r, rf)
                      out == CallRandomFunc(rf, parsed.vals, draw, draw2)
                  IN  IF parsed.panic \/ ~IsNil(parsed.err)
                      THEN [vars |-> vs, err |-> parsed.err,
                            panic |-> parsed.panic, draws |-> 0]
                      ELSE IF out.panic \/ ~IsNil(out.err)
                      THEN [vars |-> vs, err |-> out.err, panic |-> out.panic,
                            draws |-> out.draws]
                      ELSE [vars |-> (r :> out.value) @@ vs, err |-> Nil,
                            panic |-> FALSE, draws |-> out.draws]

\* The decimal digits.
Digits == <<"0", "1", "2", "3", "4", "5", "6", "7", "8", "9">>

\* The numbers up to MaxRange as they are written in a request, and the
\* empty text of a number that is left out.
Numerals == {<<Digits[n + 1]>> : n \in 0..MaxRange}

\* A request.
RandomRequest(what, matched, m) == [what |-> what, matched |-> matched, m |-> m]

\* The requests: "NUMBER [from-]to [format]", "TEXT [lang] [min-]max",
\* "EMAIL [domain]", "IMAGE [w-]h", each also with arguments that its
\* regular expression does not match, and a type that does not exist.
RandomRequests ==
    {RandomRequest("NUMBER", TRUE, <<from \o dash, from, to, fmt, fmt>>) :
        from \in Numerals, dash \in {<<"-">>}, to \in Numerals,
        fmt \in {<<>>, <<"%", "x">>}}
    \cup {RandomRequest("NUMBER", TRUE, <<<<>>, <<>>, to, fmt, fmt>>) :
             to \in Numerals, fmt \in {<<>>, <<"%", "x">>}}
    \cup {RandomRequest("TEXT", TRUE, <<lang, lang, min \o dash, min, max>>) :
             lang \in {<<>>, <<"d", "e">>, <<"x", "x">>},
             min \in Numerals, dash \in {<<"-">>}, max \in Numerals}
    \cup {RandomRequest("TEXT", TRUE, <<lang, lang, <<>>, <<>>, max>>) :
             lang \in {<<>>, <<"d", "e">>, <<"x", "x">>}, max \in Numerals}
    \cup {RandomRequest("EMAIL", TRUE, <<d>>) :
             d \in {<<>>, <<"w", "e", "b", ".", "d", "e">>}}
    \cup {RandomRequest("IMAGE", TRUE, <<<<>>, <<>>, h>>) : h \in Numerals}
    \cup {RandomRequest(w, FALSE, <<>>) :
             w \in {"NUMBER", "TEXT", "EMAIL", "IMAGE", "COLOR"}}

RandomInit ==
    /\ call \in {[fn |-> "setRandomVariable", r |-> r, vars |-> vs] :
                    r \in RandomRequests,
                    vs \in {EmptyMap} \cup
                           {(r2 :> Sprintf(<<"%", "d">>, 0)) :
                               r2 \in {RandomRequest("NUMBER", TRUE,
                                          <<<<>>, <<>>, <<"1">>, <<>>, <<>>>>),
                                       RandomRequest("EMAIL", TRUE, <<<<>>>>)}}}
    /\ ret = NoRet
    /\ test = <<>>
    /\ testPc = "idle"
    /\ response = <<>>
    /\ BoolIdle
    /\ ExecIdle
    /\ LoadIdle

\* A call of setRandomVariable with the generator at some number.
SetRandomVariableStep ==
    /\ call.fn = "setRandomVariable"
    /\ ret = NoRet
    /\ \E draw, draw2 \in 0..MaxRange :
         LET out == setRandomVariable(call.vars, call.r, draw, draw2)
         IN  ret' = [op |-> "setRandomVariable", vars |-> out.vars,
                     err |-> out.err, panic |-> out.panic,
                     draws |-> out.draws]
    /\ UNCHANGED <<call, testVars>>
    /\ UNCHANGED <<boolVars, execVars, loadVars>>

RandomNext == SetRandomVariableStep

SpecRandom == RandomInit /\ [][RandomNext]_vars

\* setRandomVariable has returned.
RandomReturned == ret # NoRet /\ ret.op = "setRandomVariable"

\* The bounds of the range of a request, the defaults standing for the
\* ones that are left out.
RangeOf(r) ==
    IF r.what = "NUMBER"
    THEN [lo |-> IF r.m[2] = <<>> THEN 1 ELSE ParseInt(r.m[2]).n,
          hi |-> ParseInt(r.m[3]).n]
    ELSE [lo |-> IF r.m[4] = <<>> THEN 4 ELSE ParseInt(r.m[4]).n,
          hi |-> ParseInt(r.m[5]).n]

\* A request with an inverted range.
InvertedRange(r) ==
    /\ r.matched /\ r.what \in {"NUMBER", "TEXT"}
    /\ r.what = "TEXT" => (r.m[2] = <<>> \/ r.m[2] \in textCorpus)
    /\ RangeOf(r).hi < RangeOf(r).lo

\* A well-formed request of one of the types NUMBER, TEXT and EMAIL.
WellFormed(r) ==
    /\ r.matched /\ r.what \in {"NUMBER", "TEXT", "EMAIL"}
    /\ r.what = "TEXT" => (r.m[2] = <<>> \/ r.m[2] \in textCorpus)
    /\ r.what # "EMAIL" => RangeOf(r).lo <= RangeOf(r).hi

\* C20: for a well-formed request of the types NUMBER, TEXT and EMAIL
\* setRandomVariable returns no error and binds vars[r] to a generated
\* value, and for an inverted range it returns an "invalid range" error.
C20_RandomTypes ==
    RandomReturned =>
      /\ WellFormed(call.r) =>
           /\ ~ret.panic /\ IsNil(ret.err)
           /\ call.r \in DOMAIN ret.vars
           /\ ret.vars[call.r].kind # "none"
      /\ (InvertedRange(call.r) /\ call.r \notin DOMAIN call.vars) =>
           /\ ~ret.panic
           /\ ret.err.kind \in
                {"ht: invalid range [%d,%d] for random number",
                 "ht: invalid range [%d,%d] for random text"}

-----------------------------------------------------------------------------
\* The JUnit report of a suite: Suite.JUnit4XML.

\* A test of a reported suite: its name, the results of its checks, and
\* its error.
ReportedTest(name, statuses, err) ==
    [Name |-> name,
     CheckResults |-> [j \in 1..Len(statuses) |->
                          [Name |-> j, Status |-> statuses[j]]],
     Error |-> err]

\* No error message.
NoErrorMsg == [Message |-> Nil, set |-> FALSE]

\* &ErrorMsg{Message: test.Error.Error(), ...}
ErrorMsg(err) == [Message |-> err, set |-> TRUE]

\* Mutant: a Bogus check is reported as a failure.
TestcaseBogusFails(t, cr) ==
    [Name |-> cr.Name, Classname |-> t.Name,
     Skipped |-> cr.Status \in {NotRun, Skipped},
     Failure |-> IF cr.Status \in {Fail, Bogus}
                 THEN ErrorMsg(t.Error) ELSE NoErrorMsg,
     Error |-> IF cr.Status = Error THEN ErrorMsg(t.Error) ELSE NoErrorMsg,
     panic |-> cr.Status \notin Statuses
               \/ (cr.Status \in {Fail, Error, Bogus} /\ IsNil(t.Error))]

\* The testcase of the check result cr of test t: the switch on cr.Status.
\* A status outside the six panics, and so does the call of Error on the
\* nil error of a test.
Testcase(t, cr) ==
    [Name |-> cr.Name, Classname |-> t.Name,
     Skipped |-> cr.Status \in {NotRun, Skipped},
     Failure |-> IF cr.Status = Fail THEN ErrorMsg(t.Error) ELSE NoErrorMsg,
     Error |-> IF cr.Status \in {Error, Bogus}
               THEN ErrorMsg(t.Error) ELSE NoErrorMsg,
     panic |-> cr.Status \notin Statuses
               \/ (cr.Status \in {Fail, Error, Bogus} /\ IsNil(t.Error))]

\* The counters and testcases before the loops of JUnit4XML.
NoTestcases ==
    [skipped |-> 0, passed |-> 0, failed |-> 0, errored |-> 0,
     testcases |-> <<>>, panic |-> FALSE]

\* The loops of JUnit4XML from check result j of test i on.
RECURSIVE UnwindFrom(_, _, _, _)
UnwindFrom(tests, i, j, acc) ==
    IF i > Len(tests) \/ acc.panic THEN acc
    ELSE IF j > Len(tests[i].CheckResults)
    THEN UnwindFrom(tests, i + 1, 1, acc)
    ELSE LET cr == tests[i].CheckResults[j]
             tc == Testcase(tests[i], cr)
         IN  UnwindFrom(tests, i, j + 1,
                [skipped |-> acc.skipped + (IF tc.Skipped THEN 1 ELSE 0),
                 passed |-> acc.passed + (IF cr.Status = Pass THEN 1 ELSE 0),
                 failed |-> acc.failed + (IF tc.Failure.set THEN 1 ELSE 0),
                 errored |-> acc.errored + (IF tc.Error.set THEN 1 ELSE 0),
                 testcases |-> Append(acc.testcases, tc),
                 panic |-> tc.panic])

\* s.JUnit4XML(props), where s.PrintReport returns the error printed and
\* xml.MarshalIndent the error marshalled: the testsuite element ts that
\* is marshalled, of which the system-out is the text of the report or the
\* message of the error of PrintReport; whether the string returned is
\* the XML header with the marshalled element, or what MarshalIndent
\* returned with its error; and the error. A panic of the loops ends the
\* call before the report is printed.
JUnit4XML(tests, printed, marshalled) ==
    LET u == UnwindFrom(tests, 1, 1, NoTestcases)
    IN  IF u.panic
        THEN [ts |-> [Tests |-> 0, Errors |-> 0, Failures |-> 0,
                      Skipped |-> 0, Testcase |-> u.testcases,
                      SystemOut |-> Nil, panic |-> TRUE],
              header |-> FALSE, err |-> Nil]
        ELSE [ts |-> [Tests |-> u.skipped + u.passed + u.failed + u.errored,
                      Errors |-> u.errored, Failures |-> u.failed,
                      Skipped |-> u.skipped, Testcase |-> u.testcases,
                      SystemOut |-> printed, panic |-> FALSE],
              header |-> IsNil(marshalled), err |-> marshalled]

\* What a call of a library returns as its error: nil or an error.
LibraryErrors == {Nil, LeafErr(1)}

\* The lists of at most n statuses.
StatusLists(n) == UNION {[1..k -> Statuses] : k \in 0..n}

\* The suites of n tests with at most budget check results in all.
RECURSIVE ReportedSuites(_, _)
ReportedSuites(n, budget) ==
    IF n = 0 THEN {<<>>}
    ELSE UNION {{Append(rest, ReportedTest(n, l, err)) :
                    rest \in ReportedSuites(n - 1, budget - Len(l)),
                    err \in LibraryErrors} :
                l \in StatusLists(budget)}

JUnitInit ==
    /\ call \in {[fn |-> "JUnit4XML", Tests |-> ts] :
                    ts \in UNION {ReportedSuites(n, JUnitResults) :
                                     n \in 0..JUnitTests}}
    /\ ret = NoRet
    /\ test = <<>>
    /\ testPc = "idle"
    /\ response = <<>>
    /\ BoolIdle
    /\ ExecIdle
    /\ LoadIdle

\* A call of JUnit4XML.
JUnit4XMLStep ==
    /\ call.fn = "JUnit4XML"
    /\ ret = NoRet
    /\ \E printed, marshalled \in LibraryErrors :
          \E out \in {JUnit4XML(call.Tests, printed, marshalled)} :
             ret' = [op |-> "JUnit4XML", ts |-> out.ts,
                     header |-> out.header, err |-> out.err]
    /\ UNCHANGED <<call, testVars>>
    /\ UNCHANGED <<boolVars, execVars, loadVars>>

JUnitNext == JUnit4XMLStep

SpecJUnit == JUnitInit /\ [][JUnitNext]_vars

\* JUnit4XML has returned.
JUnitReturned == ret # NoRet /\ ret.op = "JUnit4XML"

\* The check results of the suite's tests, in the order of the tests:
\* pairs of the position of the test and of the result.
RECURSIVE ResultsOf(_, _)
ResultsOf(tests, i) ==
    IF i > Len(tests) THEN <<>>
    ELSE [j \in 1..Len(tests[i].CheckResults) |-> <<i, j>>]
         \o ResultsOf(tests, i + 1)

\* The testcases of a kind.
CasesWhere(P(_)) ==
    Cardinality({k \in 1..Len(ret.ts.Testcase) : P(ret.ts.Testcase[k])})

IsSkippedCase(tc) == tc.Skipped /\ ~tc.Failure.set /\ ~tc.Error.set
IsPassedCase(tc) == ~tc.Skipped /\ ~tc.Failure.set /\ ~tc.Error.set
IsFailureCase(tc) == ~tc.Skipped /\ tc.Failure.set /\ ~tc.Error.set
IsErrorCase(tc) == ~tc.Skipped /\ ~tc.Failure.set /\ tc.Error.set

\* JUnit4XML has reported each CheckResult of the suite's tests as exactly
\* one testcase, in order, a NotRun or Skipped one as skipped, a Pass one as
\* passed, a Fail one as a failure and an Error or Bogus one as an error;
\* the attribute tests is the number of testcases and is the sum of the
\* skipped, passed, failed and errored ones, of which the attributes
\* skipped, failures and errors are the counts.
Reported ==
    LET rs == ResultsOf(call.Tests, 1)
        tcs == ret.ts.Testcase
    IN  /\ Len(tcs) = Len(rs)
        /\ \A k \in 1..Len(rs) :
             LET t == call.Tests[rs[k][1]]
                 cr == t.CheckResults[rs[k][2]]
             IN  /\ tcs[k].Name = cr.Name /\ tcs[k].Classname = t.Name
                 /\ cr.Status \in {NotRun, Skipped} <=> IsSkippedCase(tcs[k])
                 /\ cr.Status = Pass <=> IsPassedCase(tcs[k])
                 /\ cr.Status = Fail <=> IsFailureCase(tcs[k])
                 /\ cr.Status \in {Error, Bogus} <=> IsErrorCase(tcs[k])
        /\ ret.ts.Tests = Len(tcs)
        /\ ret.ts.Skipped = CasesWhere(IsSkippedCase)
        /\ ret.ts.Failures = CasesWhere(IsFailureCase)
        /\ ret.ts.Errors = CasesWhere(IsErrorCase)
        /\ ret.ts.Tests = ret.ts.Skipped + CasesWhere(IsPassedCase)
                          + ret.ts.Failures + ret.ts.Errors

\* A test of the suite has a check result of status Fail, Error or Bogus
\* and no error.
MissingError ==
    \E i \in 1..Len(call.Tests) :
        /\ IsNil(call.Tests[i].Error)
        /\ \E j \in 1..Len(call.Tests[i].CheckResults) :
               call.Tests[i].CheckResults[j].Status \in {Fail, Error, Bogus}

\* C21 as stated: JUnit4XML reports each CheckResult of the suite's tests
\* as exactly one testcase, with NotRun and Skipped checks reported as
\* skipped and Bogus checks counted as errors, and the attribute tests is
\* the number of testcases and the sum of the skipped, passed, failed and
\* errored ones, whatever the suite is.
C21_Original ==
    JUnitReturned => (~ret.ts.panic /\ IsNil(ret.err) /\ Reported)

\* C21 amended: JUnit4XML panics exactly for a suite with a test that has
\* a check result of status Fail, Error or Bogus and no error, of which it
\* takes the message; for every other suite it builds the testsuite with
\* each CheckResult as exactly one testcase, NotRun and Skipped checks
\* reported as skipped and Bogus checks counted as errors, the attribute
\* tests being the number of testcases and the sum of the skipped,
\* passed, failed and errored ones, and returns it as XML unless
\* xml.MarshalIndent fails, whose error it returns.
C21_JUnitTestcases ==
    JUnitReturned =>
      /\ ret.ts.panic <=> MissingError
      /\ ~ret.ts.panic => Reported
      /\ ret.header <=> (~ret.ts.panic /\ IsNil(ret.err))

\* A suite of two tests, the first with a NotRun check and the second
\* with a Bogus check and an error, is reported as two testcases in the
\* order of the tests: one skipped, one error.
C21_Witness ==
    /\ JUnitReturned
    /\ ~ret.ts.panic /\ IsNil(ret.err) /\ ret.header
    /\ Len(call.Tests) = 2
    /\ Len(call.Tests[1].CheckResults) = 1
    /\ Len(call.Tests[2].CheckResults) = 1
    /\ call.Tests[1].CheckResults[1].Status = NotRun
    /\ call.Tests[2].CheckResults[1].Status = Bogus
    /\ ~IsNil(call.Tests[2].Error)
    /\ Len(ret.ts.Testcase) = 2
    /\ IsSkippedCase(ret.ts.Testcase[1]) /\ ret.ts.Testcase[1].Classname = 1
    /\ IsErrorCase(ret.ts.Testcase[2]) /\ ret.ts.Testcase[2].Classname = 2
    /\ ret.ts.Tests = 2 /\ ret.ts.Skipped = 1 /\ ret.ts.Errors = 1
    /\ ret.ts.Failures = 0

-----------------------------------------------------------------------------
\* Time variables: findNowVariables, findNowVarsInCheckRec and nowVariables.
\* A text is the sequence of its pieces, each a literal text or a time
\* variable as nowTimeRe matches it: the record of its delta, with sign,
\* number and unit, and of its format.

\* No delta.
NoDelta == [sign |-> "", n |-> 0, unit |-> ""]

\* The time variable "{{NOW <sign> <n><unit> | "<format>"}}".
NowVariable(delta, format) ==
    [now |-> TRUE, delta |-> delta, format |-> format]

\* A piece of literal text.
Literal == [now |-> FALSE, delta |-> NoDelta, format |-> ""]

\* A piece of a text is a time variable.
IsNowVariable(p) == p.now

\* The places of the text s from place i on that hold a time variable
\* with a format, which ends in "}}.
Formatted(s, i) ==
    {j \in i..Len(s) : IsNowVariable(s[j]) /\ s[j].format # ""}

\* nowTimeRe.FindAllString(s, 1): the first match of the text s, if there
\* is one, as the pieces it spans. It begins with the first time variable
\* of s. If that one has a format, the greedy (.*) of the format takes
\* the match on to the last "}} of the text, that is to the end of the
\* last time variable with a format, over all the pieces in between; no
\* literal piece has "}} or a line break in it.
FindAllString1(s) ==
    IF \A i \in 1..Len(s) : ~IsNowVariable(s[i]) THEN <<>>
    ELSE LET i == CHOOSE i \in 1..Len(s) :
                     /\ IsNowVariable(s[i])
                     /\ \A j \in 1..(i - 1) : ~IsNowVariable(s[j])
             last == IF s[i].format = "" THEN i
                     ELSE CHOOSE j \in Formatted(s, i) :
                             \A k \in Formatted(s, i) : k <= j
         IN  <<SubSeq(s, i, last)>>

\* The time variables of the texts ss, text by text.
RECURSIVE FindInTexts(_)
FindInTexts(ss) ==
    IF Len(ss) = 0 THEN <<>>
    ELSE FindAllString1(Head(ss)) \o FindInTexts(Tail(ss))

\* t.findNowVariables(): add for the name, description, URL, body,
\* parameters, header and cookies, findNowVarsInCheck for the checks.
findNowVariables(t) == FindInTexts(t.Texts) \o FindInTexts(t.CheckTexts)

\* The seconds of n units, as the switch on the unit multiplies them.
Seconds(n, unit) ==
    IF unit = "m" THEN n * 60
    ELSE IF unit = "h" THEN n * 60 * 60
    ELSE IF unit = "d" THEN n * 24 * 26 * 60
    ELSE n

\* The offset of the delta of a time variable.
Offset(delta) ==
    IF delta = NoDelta THEN 0
    ELSE Seconds(IF delta.sign = "-" THEN -1 * delta.n ELSE delta.n,
                 delta.unit)

\* The third submatch of nowTimeRe in the match k: no format, or the
\* text from the format of the first piece to the format of the last one,
\* kept as the pieces of k.
FormatOf(k) == IF k[1].format = "" THEN <<>> ELSE k

\* now.Add(off).Format(format), kept as the instant and the format;
\* time.RFC1123 where there is none.
FormatTime(instant, format) ==
    [instant |-> instant,
     format |-> IF format # <<>> THEN format ELSE <<"RFC1123">>]

\* The loop of nowVariables over the matches nv: the key kk is the match
\* without its braces, the delta is the first submatch, which is the
\* delta of the first piece.
RECURSIVE NowVariablesFrom(_, _, _)
NowVariablesFrom(nv, now, vs) ==
    IF Len(nv) = 0 THEN vs
    ELSE LET kk == Head(nv)
         IN  IF kk \in DOMAIN vs THEN NowVariablesFrom(Tail(nv), now, vs)
             ELSE NowVariablesFrom(Tail(nv), now,
                     (kk :> FormatTime(now + Offset(kk[1].delta),
                                       FormatOf(kk)))
                     @@ vs)

\* t.nowVariables(now)
nowVariables(t, now) == NowVariablesFrom(findNowVariables(t), now, EmptyMap)

\* The time variables: without delta, with and without format, and with
\* every delta of at most MaxOffset units.
NowVariables ==
    {NowVariable(NoDelta, f) : f \in {"", "2006-Jan-02"}}
    \cup {NowVariable([sign |-> sg, n |-> n, unit |-> u], "") :
             sg \in {"+", "-"}, n \in 1..MaxOffset, u \in {"s", "m", "h", "d"}}

\* The texts of at most MaxItems pieces with the time variables a and b.
TextsWith(a, b) == UNION {[1..n -> {Literal, a, b}] : n \in 0..MaxItems}

NowInit ==
    /\ \E a, b \in NowVariables :
         \E name, field \in TextsWith(a, b) : \E now \in {0, 1000000} :
            call = [fn |-> "nowVariables", now |-> now,
                    test |-> [Texts |-> <<name>>, CheckTexts |-> <<field>>]]
    /\ ret = NoRet
    /\ test = <<>>
    /\ testPc = "idle"
    /\ response = <<>>
    /\ BoolIdle
    /\ ExecIdle
    /\ LoadIdle

\* A call of nowVariables.
NowVariablesStep ==
    /\ call.fn = "nowVariables"
    /\ ret = NoRet
    /\ ret' = [op |-> "nowVariables",
               vars |-> nowVariables(call.test, call.now)]
    /\ UNCHANGED <<call, testVars>>
    /\ UNCHANGED <<boolVars, execVars, loadVars>>

NowNext == NowVariablesStep

SpecNow == NowInit /\ [][NowNext]_vars

\* nowVariables has returned.
NowReturned == ret # NoRet /\ ret.op = "nowVariables"

\* The length of a unit in seconds.
UnitLength(unit) ==
    IF unit = "s" THEN 1
    ELSE IF unit = "m" THEN 60
    ELSE IF unit = "h" THEN 3600
    ELSE 86400

\* C23: nowVariables binds a time variable {{NOW +/- N<unit>}} to the
\* formatted instant now +/- N times the length of the unit, which is 1
\* second for s, 60 for m, 3600 for h and 86400 for d, and a variable
\* without offset to now itself.
C23_UnitLengths ==
    NowReturned =>
      \A k \in DOMAIN ret.vars :
         ret.vars[k].instant =
            IF k[1].delta = NoDelta THEN call.now
            ELSE IF k[1].delta.sign = "-"
            THEN call.now - k[1].delta.n * UnitLength(k[1].delta.unit)
            ELSE call.now + k[1].delta.n * UnitLength(k[1].delta.unit)

\* The time variables that occur in the texts ss.
OccurringIn(ss) ==
    {ss[i][j] : <<i, j>> \in {p \in (DOMAIN ss) \X (1..MaxItems) :
                                 /\ p[2] <= Len(ss[p[1]])
                                 /\ IsNowVariable(ss[p[1]][p[2]])}}

\* C26: the map that nowVariables returns has a binding for every time
\* variable that occurs anywhere in the texts of the test or in the string
\* fields of its checks, also for several different ones in one text.
C26_AllOccurrences ==
    NowReturned =>
      \A p \in OccurringIn(call.test.Texts) \cup
                OccurringIn(call.test.CheckTexts) : <<p>> \in DOMAIN ret.vars

-----------------------------------------------------------------------------
\* lcmOf and lcm, step by step. The call record is the frame of lcmOf: the
\* lengths of the value lists of vars, the keys the range loop has still to
\* visit, which it visits in any order, its variable n, and the frame of
\* the call of lcm it is in: the arguments m and k and the variables a, b.

\* The frame of lcmOf at its start, for the value lists with lengths lens.
LcmOfFrame(lens) ==
    [fn |-> "lcmOf", vars |-> lens, rest |-> DOMAIN lens, n |-> 0,
     pc |-> "range", m |-> 0, k |-> 0, a |-> 0, b |-> 0]

LcmInit ==
    /\ call \in {LcmOfFrame(lens) :
                    lens \in UNION {[ks -> 0..MaxListLen] :
                                       ks \in SUBSET {"A", "B", "C"}}}
    /\ ret = NoRet
    /\ test = <<>>
    /\ testPc = "idle"
    /\ response = <<>>
    /\ BoolIdle
    /\ ExecIdle
    /\ LoadIdle

\* One turn of the range loop of lcmOf over the value list of key v: the
\* first length, or that of every list while n is 0, is taken as it is, and
\* otherwise lcm(n, len(v)) is called.
LcmOfRange(v) ==
    /\ call.fn = "lcmOf" /\ call.pc = "range"
    /\ v \in call.rest
    /\ call' = IF call.n = 0
               THEN [call EXCEPT !.rest = @ \ {v}, !.n = call.vars[v]]
               ELSE [call EXCEPT !.rest = @ \ {v}, !.pc = "lcm",
                                 !.m = call.n, !.k = call.vars[v],
                                 !.a = call.n, !.b = call.vars[v]]
    /\ UNCHANGED <<ret, testVars>>
    /\ UNCHANGED <<boolVars, execVars, loadVars>>

\* One turn of the loop of lcm: the smaller of a and b grows by its
\* argument.
LcmLoop ==
    /\ call.fn = "lcmOf" /\ call.pc = "lcm"
    /\ call.a # call.b
    /\ call' = IF call.a < call.b
               THEN [call EXCEPT !.a = @ + call.m]
               ELSE [call EXCEPT !.b = @ + call.k]
    /\ UNCHANGED <<ret, testVars>>
    /\ UNCHANGED <<boolVars, execVars, loadVars>>

\* lcm returns a, which becomes n.
LcmReturn ==
    /\ call.fn = "lcmOf" /\ call.pc = "lcm"
    /\ call.a = call.b
    /\ call' = [call EXCEPT !.n = call.a, !.pc = "range"]
    /\ UNCHANGED <<ret, testVars>>
    /\ UNCHANGED <<boolVars, execVars, loadVars>>

\* lcmOf returns n after the last list.
LcmOfReturn ==
    /\ call.fn = "lcmOf" /\ call.pc = "range"
    /\ call.rest = {}
    /\ ret = NoRet
    /\ ret' = [op |-> "lcmOf", n |-> call.n]
    /\ UNCHANGED <<call, testVars>>
    /\ UNCHANGED <<boolVars, execVars, loadVars>>

LcmNext ==
    \/ \E v \in {"A", "B", "C"} : LcmOfRange(v)
    \/ LcmLoop
    \/ LcmReturn
    \/ LcmOfReturn

SpecLcm == LcmInit /\ [][LcmNext]_vars

\* lcmOf runs on as long as it has a step to take.
SpecLcmFair == SpecLcm /\ WF_vars(LcmNext)

\* lcmOf has returned.
LcmOfReturned == ret # NoRet /\ ret.op = "lcmOf"

\* x is a common multiple of the numbers of S.
CommonMultiple(x, S) == \A l \in S : \E q \in 0..x : q * l = x

\* The lengths of the value lists.
Lengths == {call.vars[v] : v \in DOMAIN call.vars}

\* lcmOf has returned the least common multiple of the lengths, which is
\* the same for every order of the lists.
ReturnsLcm ==
    (LcmOfReturned /\ Lengths # {}) =>
        /\ CommonMultiple(ret.n, Lengths)
        /\ \A x \in 1..(ret.n - 1) : ~CommonMultiple(x, Lengths)

\* C24: lcmOf terminates and returns the least common multiple of the
\* lengths of all value lists, whatever the order in which the map is
\* iterated, and so does every call of lcm it makes.
C24_LcmTerminates == []ReturnsLcm /\ <>LcmOfReturned

-----------------------------------------------------------------------------
\* The recorder: extractCommonHeaders. A header is a map from names to
\* values, a value being the list of its strings.

\* The names of the header entries.
HeaderNames == {"Accept", "Cookie"}

\* The values of a header entry; the last one is one string with a blank.
HeaderValues == {<<"a">>, <<"a", "b">>, <<"a b">>}

\* The words of the strings of a value.
RECURSIVE WordsOf(_)
WordsOf(v) ==
    IF Len(v) = 0 THEN <<>>
    ELSE (IF Head(v) = "a b" THEN <<"a", "b">> ELSE <<Head(v)>>)
         \o WordsOf(Tail(v))

\* fmt.Sprintf("%v", header[h]): the strings of the value between brackets
\* with blanks between them, that is its words; "[]" for an entry that the
\* header lacks.
SprintfV(header, h) ==
    IF h \in DOMAIN header THEN WordsOf(header[h]) ELSE <<>>

\* The entry h of the first header is taken as common: the inner loop found
\* no header from the third one on that prints another value for h.
Identical(headers, h) ==
    \A j \in 3..Len(headers) :
        SprintfV(headers[1], h) = SprintfV(headers[j], h)

\* extractCommonHeaders(headers): the common entries and the headers after
\* the call. The access to the first of no headers panics.
extractCommonHeaders(headers) ==
    IF Len(headers) = 0
    THEN [common |-> EmptyMap, headers |-> headers, panic |-> TRUE]
    ELSE LET hs == {h \in DOMAIN headers[1] : Identical(headers, h)}
         IN  [common |-> [h \in hs |-> headers[1][h]],
              headers |-> [i \in 1..Len(headers) |->
                              [g \in DOMAIN headers[i] \ hs |-> headers[i][g]]],
              panic |-> FALSE]

RecorderInit ==
    /\ call \in {[fn |-> "extractCommonHeaders", headers |-> hs] :
                    hs \in UNION {[1..n -> Maps(HeaderNames, HeaderValues)] :
                                     n \in 0..MaxEvents}}
    /\ ret = NoRet
    /\ test = <<>>
    /\ testPc = "idle"
    /\ response = <<>>
    /\ BoolIdle
    /\ ExecIdle
    /\ LoadIdle

\* A call of extractCommonHeaders.
ExtractCommonHeadersStep ==
    /\ call.fn = "extractCommonHeaders"
    /\ ret = NoRet
    /\ LET out == extractCommonHeaders(call.headers)
       IN  ret' = [op |-> "extractCommonHeaders", common |-> out.common,
                   headers |-> out.headers, panic |-> out.panic]
    /\ UNCHANGED <<call, testVars>>
    /\ UNCHANGED <<boolVars, execVars, loadVars>>

RecorderNext == ExtractCommonHeadersStep

SpecRecorder == RecorderInit /\ [][RecorderNext]_vars

\* extractCommonHeaders has returned.
ExtractReturned == ret # NoRet /\ ret.op = "extractCommonHeaders"

\* The entries that every header has with the same value.
CommonEntries ==
    {h \in HeaderNames :
        \A i \in 1..Len(call.headers) :
            /\ h \in DOMAIN call.headers[i]
            /\ call.headers[i][h] = call.headers[1][h]}

\* C25: extractCommonHeaders returns exactly the entries whose values are
\* identical in every header, deletes exactly those from every header and
\* leaves all other entries untouched; an entry whose value differs in any
\* one event is not returned as common.
C25_CommonHeaders ==
    ExtractReturned =>
      /\ ~ret.panic
      /\ ret.common = [h \in CommonEntries |-> call.headers[1][h]]
      /\ \A i \in 1..Len(call.headers) :
           ret.headers[i] =
              [g \in DOMAIN call.headers[i] \ CommonEntries |->
                  call.headers[i][g]]

\* setRandomVariable has returned for a request that was not bound before.
NewlyRequested == RandomReturned /\ call.r \notin DOMAIN call.vars

\* C28: setRandomVariable never panics: for every request that names an
\* entry of randomFuncs or an unknown type, with any arguments, it either
\* binds vars[r] and returns nil or returns an error and leaves vars
\* unchanged; if vars has r already it returns nil without changing vars
\* and without drawing from Random.
C28_NeverPanics ==
    RandomReturned =>
      /\ ~ret.panic
      /\ IsNil(ret.err) =>
           /\ call.r \in DOMAIN ret.vars
           /\ \A k \in DOMAIN call.vars :
                 k \in DOMAIN ret.vars /\ ret.vars[k] = call.vars[k]
      /\ ~IsNil(ret.err) => ret.vars = call.vars
      /\ call.r \in DOMAIN call.vars =>
           (IsNil(ret.err) /\ ret.vars = call.vars /\ ret.draws = 0)

\* The language of a TEXT request.
LangOf(r) == IF r.m[2] = <<>> THEN <<"f", "r">> ELSE r.m[2]

\* ws are consecutive words of the corpus of a language, read cyclically.
Consecutive(ws, lang) ==
    \E b \in 0..(CorpusWords - 1) :
       \A i \in 1..Len(ws) :
          ws[i] = CorpusOf(lang)[((b + i - 1) % CorpusWords) + 1]

\* C29: for every language with a corpus and every range 0 <= min <= max
\* randomText returns n words for some n with min <= n <= max, the empty
\* text for n = 0, and they are n consecutive words of the corpus read
\* cyclically, from the last word on to the first, also when n is greater
\* than the number of words of the corpus.
C29_RandomText ==
    (NewlyRequested /\ call.r.what = "TEXT" /\ WellFormed(call.r)) =>
      /\ ~ret.panic /\ IsNil(ret.err)
      /\ LET v == ret.vars[call.r]
         IN  /\ v.kind = "text" /\ v.format = LangOf(call.r)
             /\ v.n = Len(v.words)
             /\ RangeOf(call.r).lo <= v.n /\ v.n <= RangeOf(call.r).hi
             /\ Consecutive(v.words, LangOf(call.r))

\* A text of more words than the corpus has: it begins with the second
\* word, goes on to the last, and from the first on again.
C29_Witness ==
    /\ NewlyRequested /\ call.r.what = "TEXT" /\ WellFormed(call.r)
    /\ IsNil(ret.err)
    /\ ret.vars[call.r].n > CorpusWords
    /\ ret.vars[call.r].words[1] = <<LangOf(call.r), 2>>
    /\ ret.vars[call.r].words[CorpusWords] = <<LangOf(call.r), 1>>
    /\ ret.vars[call.r].words[CorpusWords + 1] = <<LangOf(call.r), 2>>

====
